---- MODULE Spec2Model ----
(***************************************************************************)
(* Model of the dictionary-asset discovery scripts under src/tools:        *)
(*   scrape-freedict.py, generate-registry.py, quick-scrape.py,            *)
(*   scrape-bergamot.py, scrape-wiktionary.py, scrape-wiktionary-top10.py. *)
(*                                                                         *)
(* Conventions.  A Python str is a sequence of one-character strings.      *)
(* A Python value that may be None is an option: None is <<>> and a        *)
(* present value x is <<x>>.  A Python float that came from a decimal      *)
(* numeral is the exact number <<m, a, b>> = m * 2^a * 5^b in normal form, *)
(* so that equal numbers are equal tuples.  A size_mb, which always has    *)
(* one decimal, is an integer number of tenths of a MiB.                   *)
(***************************************************************************)
EXTENDS Integers, Sequences, FiniteSets, TLC

\* ------------------------------------------------------------------ bounds

\* Longest size-column text of a FreeDict listing row.
MaxLen == 3
\* Most rows a FreeDict version listing holds.
MaxRows == 2

\* ------------------------------------------------------------------- state

\* Each script is a program of its own: a behaviour runs one of them, and the
\* variables of the others stay as they are before a start.

\* scrape-freedict.py, get_pair_details: the scan of a version listing
VARIABLES
    fd_pc,          \* "request1", "request2": about to get the page of the
                    \* pair, of its latest version; "versions": scanning the
                    \* links; "rows": scanning the table rows; "done": returned
    fd_links,       \* number of links scanned so far
    versions,       \* the version names found so far; emptied once the
                    \* latest is chosen and its page asked for
    latest_version, \* None until chosen
    fd_row,         \* number of rows scanned so far
    size_text,      \* the size-column text of the row the scan stopped at
    fd_result       \* what get_pair_details returned

fdVars == <<fd_pc, fd_links, versions, latest_version, fd_row, size_text, fd_result>>

\* generate-registry.py: one pass of the loop body over one archive
VARIABLES
    pk_pc,          \* "file": an archive is listed; "built": its record was
                    \* appended; "raised": the loop body raised
    pk_file,        \* zip_file
    pk_stat,        \* the archive's size on disk, None when it cannot be read
    pk_sidecar,     \* what <pack_name>.json is
    pack_entry      \* the record built

pkVars == <<pk_pc, pk_file, pk_stat, pk_sidecar, pack_entry>>

\* generate-registry.py: generate_registry over a directory
VARIABLES
    dir_files,      \* the archive files of the working directory
    dir_stat,       \* archive -> its size on disk
    dir_sidecar,    \* pack name -> what <pack_name>.json is
    clock,          \* what utcnow() reads next
    listings,       \* what glob.glob returned, run by run
    runs            \* what generate_registry returned, run by run

regVars == <<dir_files, dir_stat, dir_sidecar, clock, listings, runs>>

\* quick-scrape.py: main
VARIABLES
    q_pc,           \* the list being probed, then "summary", then "done"
    q_i,            \* candidates of that list probed so far
    q_probed,       \* every probe made so far: list, pair, what came back
    q_results,      \* results
    q_file          \* quick-discovery-results.json, None until written

qVars == <<q_pc, q_i, q_probed, q_results, q_file>>

\* scrape-bergamot.py: main
VARIABLES
    bg_pc,          \* "parse", "discover", "write", then "done"
    bg_n,           \* entries of the translateLocally registry parsed so far
    translatelocally_results,
    bg_i,           \* known models probed so far
    bg_probed,      \* every probe of a known model so far
    bergamot_results,
    bg_file,        \* bergamot-scraped.json, None until written
    bg_model,       \* model, the entry of the registry parsed last, None
                    \* before the first
    bg_probe        \* whether the probe made for that entry failed, None
                    \* when no probe was made for it

bgVars == <<bg_pc, bg_n, translatelocally_results, bg_i, bg_probed, bergamot_results,
            bg_file, bg_model, bg_probe>>

\* scrape-wiktionary.py and scrape-wiktionary-top10.py: main
VARIABLES
    wk_script,      \* which of the two scripts runs: "wiktionary" or "top10"
    wk_pc,          \* "scrape", "loop", then "done"
    wk_n,           \* entries of the repository listing read so far
    dictionaries,   \* what the scan of the repository has collected
    wk_i,           \* files of dictionaries checked so far
    wk_probed,      \* every file checked so far: its listed size, its probe
    wk_results,     \* results
    wk_file,        \* the report, None until written
    wk_file_info    \* file_info, the entry of the listing being scanned, None
                    \* outside the scan of the repository

wkVars == <<wk_script, wk_pc, wk_n, dictionaries, wk_i, wk_probed, wk_results, wk_file,
            wk_file_info>>

\* scrape-freedict.py: main
VARIABLES
    fm_pc,          \* "scrape", "loop", then "done"
    fm_n,           \* links of the directory index read so far
    pairs,          \* the pairs found in the index, in index order
    relevant_pairs,
    fm_i,           \* relevant pairs checked so far
    fm_results,     \* results
    fm_file         \* freedict-scraped.json, None until written

fmVars == <<fm_pc, fm_n, pairs, relevant_pairs, fm_i, fm_results, fm_file>>

\* get_language_code of scrape-wiktionary.py and scrape-wiktionary-top10.py,
\* called on its own
VARIABLES
    gl_script,      \* the script whose get_language_code is called
    gl_pc,          \* "call", then "done"
    gl_name,        \* language_name
    gl_code         \* what the call returned, None before it returns

glVars == <<gl_script, gl_pc, gl_name, gl_code>>

\* test_conversion.py: main
VARIABLES
    tc_pc,          \* "setup", "download", "extract", "prepare", "convert",
                    \* then "done" (main returned) or "escaped" (it raised)
    tc_fs,          \* what the test directory holds once the archive is
                    \* extracted, None before
    tc_conv,        \* how the conversion step went, None before it ran
    tc_exit,        \* what main returned, None before it returns
    tc_server,      \* "responds": the download server answers the request,
                    \* with the archive or an error; "silent": it accepts the
                    \* connection and never sends anything
    tc_verify,      \* what verify_sqlite returned, None while it has not run
    tc_cwd          \* the working directory of the process: "parent", where
                    \* main was started, or "conversion_test"

tcVars == <<tc_pc, tc_fs, tc_conv, tc_exit, tc_server, tc_verify, tc_cwd>>

vars == <<fdVars, pkVars, regVars, qVars, bgVars, wkVars, fmVars, glVars, tcVars>>

\* --------------------------------------------------------------- constants

KiB == 1024
MiB == 1048576

\* ----------------------------------------------------------------- options

None == <<>>

Some(x) == <<x>>

IsNone(o) == o = None

\* The scripts other than `script` have not been started
OthersOff(script) ==
    /\ script # "get_pair_details" =>
           /\ fd_pc = "off" /\ fd_links = 0 /\ versions = <<>> /\ latest_version = None
           /\ fd_row = 0 /\ size_text = None /\ fd_result = None
    /\ script # "pack" =>
           /\ pk_pc = "off" /\ pk_file = <<>> /\ pk_stat = None
           /\ pk_sidecar = [kind |-> "absent"] /\ pack_entry = None
    /\ script # "generate_registry" =>
           /\ dir_files = {} /\ dir_stat = <<>> /\ dir_sidecar = <<>>
           /\ clock = 0 /\ listings = <<>> /\ runs = <<>>
    /\ script # "quick-scrape" =>
           /\ q_pc = "off" /\ q_i = 0 /\ q_probed = <<>>
           /\ q_results = <<>> /\ q_file = None
    /\ script # "scrape-bergamot" =>
           /\ bg_pc = "off" /\ bg_n = 0 /\ translatelocally_results = <<>>
           /\ bg_i = 0 /\ bg_probed = <<>> /\ bergamot_results = <<>>
           /\ bg_file = None /\ bg_model = None /\ bg_probe = None
    /\ script # "scrape-wiktionary" =>
           /\ wk_script = "off" /\ wk_pc = "off" /\ wk_n = 0 /\ dictionaries = <<>>
           /\ wk_i = 0 /\ wk_probed = <<>> /\ wk_results = <<>> /\ wk_file = None
           /\ wk_file_info = None
    /\ script # "scrape-freedict" =>
           /\ fm_pc = "off" /\ fm_n = 0 /\ pairs = <<>> /\ relevant_pairs = <<>>
           /\ fm_i = 0 /\ fm_results = <<>> /\ fm_file = None
    /\ script # "get_language_code" =>
           gl_script = "off" /\ gl_pc = "off" /\ gl_name = <<>> /\ gl_code = None
    /\ script # "test_conversion" =>
           /\ tc_pc = "off" /\ tc_fs = None /\ tc_conv = None /\ tc_exit = None
           /\ tc_server = "responds" /\ tc_verify = None /\ tc_cwd = "parent"

\* ------------------------------------------------------------------ floats

\* A float is <<m, a, b>>, the number m * 2^a * 5^b, with m divisible by
\* neither 2 nor 5 (or 0 = <<0, 0, 0>>): every decimal numeral and every
\* product of one with a power of two has exactly one such form.
RECURSIVE Norm(_, _, _)
Norm(m, a, b) ==
    IF m = 0 THEN <<0, 0, 0>>
    ELSE IF m % 2 = 0 THEN Norm(m \div 2, a + 1, b)
    ELSE IF m % 5 = 0 THEN Norm(m \div 5, a, b + 1)
    ELSE <<m, a, b>>

\* x * k for a float x and an integer k
FMul(x, k) == Norm(x[1] * k, x[2], x[3])

\* x * 2^n
FScale(x, n) == IF x[1] = 0 THEN x ELSE <<x[1], x[2] + n, x[3]>>

RECURSIVE Pow(_, _)
Pow(base, n) == IF n <= 0 THEN 1 ELSE base * Pow(base, n - 1)

\* The float x as the fraction FNum(x) / FDen(x)
FNum(x) == x[1] * Pow(2, x[2]) * Pow(5, x[3])

FDen(x) == Pow(2, -x[2]) * Pow(5, -x[3])

Abs(n) == IF n < 0 THEN -n ELSE n

\* round(num / den, 1) in tenths, for den > 0: the nearest tenth, an exact tie
\* going to the even tenth (Python's round on a float).
RoundTenths(num, den) ==
    LET n10 == Abs(num) * 10
        q == n10 \div den
        r == n10 % den
        t == IF 2 * r > den THEN q + 1
             ELSE IF 2 * r < den THEN q
             ELSE IF q % 2 = 0 THEN q ELSE q + 1
    IN  IF num < 0 THEN -t ELSE t

\* ----------------------------------------------------------------- strings

Digits == {"0", "1", "2", "3", "4", "5", "6", "7", "8", "9"}

DigitVal(c) ==
    CASE c = "0" -> 0 [] c = "1" -> 1 [] c = "2" -> 2 [] c = "3" -> 3
      [] c = "4" -> 4 [] c = "5" -> 5 [] c = "6" -> 6 [] c = "7" -> 7
      [] c = "8" -> 8 [] c = "9" -> 9

\* c in s, for a one-character c
Contains(s, c) == \E i \in 1..Len(s) : s[i] = c

\* s.replace(c, ''), for a one-character c
Remove(s, c) == SelectSeq(s, LAMBDA x : x # c)

Count(s, c) == Cardinality({i \in 1..Len(s) : s[i] = c})

\* All sequences over S of length at most n
RECURSIVE SeqsUpTo(_, _)
SeqsUpTo(S, n) ==
    IF n = 0 THEN {<<>>}
    ELSE LET shorter == SeqsUpTo(S, n - 1)
         IN  shorter \cup {Append(s, c) : s \in shorter, c \in S}

\* float(s) succeeds: an optional sign, then digits around at most one point,
\* at least one digit.
Unsigned(s) == IF Len(s) > 0 /\ s[1] \in {"-", "+"} THEN Tail(s) ELSE s

CanFloat(s) ==
    LET u == Unsigned(s)
    IN  /\ \A i \in 1..Len(u) : u[i] \in Digits \cup {"."}
        /\ Count(u, ".") <= 1
        /\ \E i \in 1..Len(u) : u[i] \in Digits

RECURSIVE DigitsVal(_)
DigitsVal(s) ==
    IF Len(s) = 0 THEN 0
    ELSE 10 * DigitsVal(SubSeq(s, 1, Len(s) - 1)) + DigitVal(s[Len(s)])

\* float(s), for a text float accepts
Float(s) ==
    LET u == Unsigned(s)
        p == IF Contains(u, ".") THEN CHOOSE i \in 1..Len(u) : u[i] = "." ELSE Len(u)
        m == DigitsVal(Remove(u, "."))
        d == Len(u) - p
    IN  Norm(IF Len(s) > 0 /\ s[1] = "-" THEN -m ELSE m, -d, -d)

\* ======================================================================
\* scrape-freedict.py: get_pair_details, the scan of the version listing
\* ======================================================================

SizeTexts == SeqsUpTo({"0", "5", ".", "K", "M", "G", "-"}, MaxLen)

\* The file names a version listing holds.
ListedNames == {"freedict.stardict.tar.xz", "freedict.dictd.tar.xz", "freedict.src.tar.xz"}

\* Lines 95-98: the row is the one the scan stops at: it has four cells and
\* its file name ends with '.stardict.tar.xz'
RowMatches(ncells, filename) == ncells >= 4 /\ filename = "freedict.stardict.tar.xz"

\* Lines 102-112: the size of the matching row.
ParseSizeG(text) ==
    IF Len(text) > 0 /\ text # <<"-">>
    THEN IF Contains(text, "M")
         THEN IF CanFloat(Remove(text, "M"))
              THEN Some(FMul(FMul(Float(Remove(text, "M")), KiB), KiB)) ELSE None
         ELSE IF Contains(text, "K")
         THEN IF CanFloat(Remove(text, "K"))
              THEN Some(FMul(Float(Remove(text, "K")), KiB)) ELSE None
         ELSE IF Contains(text, "G")
         THEN IF CanFloat(Remove(text, "G"))
              THEN Some(FMul(FMul(Float(Remove(text, "G")), KiB), KiB)) ELSE None
         ELSE None
    ELSE None

ParseSize(text) ==
    IF Len(text) > 0 /\ text # <<"-">>
    THEN IF Contains(text, "M")
         THEN IF CanFloat(Remove(text, "M"))
              THEN Some(FMul(FMul(Float(Remove(text, "M")), KiB), KiB)) ELSE None
         ELSE IF Contains(text, "K")
         THEN IF CanFloat(Remove(text, "K"))
              THEN Some(FMul(Float(Remove(text, "K")), KiB)) ELSE None
         ELSE IF Contains(text, "G")
         THEN IF CanFloat(Remove(text, "G"))
              THEN Some(FMul(FMul(FMul(Float(Remove(text, "G")), KiB), KiB), KiB)) ELSE None
         ELSE None
    ELSE None

\* `x if file_size else None` and `if file_size:` on an optional float
FTruthy(o) == ~IsNone(o) /\ o[1][1] # 0

\* Lines 114-121: the record returned once a StarDict file was found.
PairDetails(filename, file_size) ==
    [filename |-> filename,
     size_bytes |-> file_size,
     size_mb |-> IF FTruthy(file_size)
                 THEN Some(RoundTenths(FNum(FScale(file_size[1], -20)),
                                       FDen(FScale(file_size[1], -20))))
                 ELSE None]

FdInit ==
    /\ fd_pc = "request1"
    /\ fd_links = 0
    /\ versions = <<>>
    /\ latest_version = None
    /\ fd_row = 0
    /\ size_text = None
    /\ fd_result = None
    /\ OthersOff("get_pair_details")

\* Lines 94-96: a row with fewer than four cells, or whose second cell is not
\* a StarDict archive name, is passed over.
FdSkipRow ==
    /\ fd_pc = "rows"
    /\ fd_row < MaxRows
    /\ \E ncells \in {2, 4}, filename \in ListedNames :
          /\ ~RowMatches(ncells, filename)
          /\ fd_row' = fd_row + 1
    /\ UNCHANGED <<fd_pc, fd_links, versions, latest_version, size_text, fd_result>>
    /\ UNCHANGED <<pkVars, regVars, qVars, bgVars, wkVars, fmVars, glVars, tcVars>>

\* Lines 97-121: the first row with four cells and a StarDict name ends the
\* scan; its size text is parsed and the record returned.
FdMatchRow ==
    /\ fd_pc = "rows"
    /\ fd_row < MaxRows
    /\ \E ncells \in {2, 4}, filename \in ListedNames, text \in SizeTexts :
          /\ RowMatches(ncells, filename)
          /\ size_text' = Some(text)
          /\ fd_result' = Some(PairDetails(filename, ParseSize(text)))
    /\ fd_row' = fd_row + 1
    /\ fd_pc' = "done"
    /\ UNCHANGED <<fd_links, versions, latest_version>>
    /\ UNCHANGED <<pkVars, regVars, qVars, bgVars, wkVars, fmVars, glVars, tcVars>>

\* Lines 93, 114, 123: the rows run out with no StarDict file: None.
FdNoMoreRows ==
    /\ fd_pc = "rows"
    /\ fd_result' = None
    /\ fd_pc' = "done"
    /\ UNCHANGED <<fd_links, versions, latest_version, fd_row, size_text>>
    /\ UNCHANGED <<pkVars, regVars, qVars, bgVars, wkVars, fmVars, glVars, tcVars>>

\* ---------------------------------------------------------------- claim C1

\* The texts of the form <number>c: an unsigned decimal numeral then c.
IsNumeral(s) == CanFloat(s) /\ (Len(s) > 0 => s[1] \notin {"-", "+"})

HasForm(text, c) ==
    /\ Len(text) > 0
    /\ text[Len(text)] = c
    /\ IsNumeral(SubSeq(text, 1, Len(text) - 1))

NumberOf(text) == Float(SubSeq(text, 1, Len(text) - 1))

\* C1: when get_pair_details stopped at a StarDict row, a size text <number>K,
\* <number>M or <number>G gives size_bytes = number * 1024, number * 1024^2 or
\* number * 1024^3, and the text '-' or '' gives a record whose size_bytes is
\* None.
C1_SizeParse ==
    (fd_pc = "done" /\ ~IsNone(size_text)) =>
        LET text == size_text[1]
            rec == fd_result[1]
        IN  /\ ~IsNone(fd_result)
            /\ HasForm(text, "K") =>
                  /\ ~IsNone(rec.size_bytes)
                  /\ rec.size_bytes[1] = FScale(NumberOf(text), 10)
            /\ HasForm(text, "M") =>
                  /\ ~IsNone(rec.size_bytes)
                  /\ rec.size_bytes[1] = FScale(NumberOf(text), 20)
            /\ HasForm(text, "G") =>
                  /\ ~IsNone(rec.size_bytes)
                  /\ rec.size_bytes[1] = FScale(NumberOf(text), 30)
            /\ text \in {<<>>, <<"-">>} => IsNone(rec.size_bytes)

\* A run that passed over a row and stopped at a row reading ".5G": half a
\* GiB, 2^29 bytes.
C1_Witness ==
    /\ fd_pc = "done"
    /\ fd_row = 2
    /\ size_text = Some(<<".", "5", "G">>)
    /\ ~IsNone(fd_result)
    /\ fd_result[1].size_bytes = Some(<<1, 29, 0>>)
    /\ fd_result[1].size_mb = Some(5120)

\* ======================================================================
\* generate-registry.py
\* ======================================================================

\* A file name is a sequence of tokens: the characters of NameChars and the
\* two substrings '.sqlite' and '.zip' (no other token holds a '.', so a
\* substring '.sqlite.zip' or '.zip' of the name is a run of whole tokens).
NameChars == {"a", "B", "-"}

\* Longest archive name, counted in tokens before its final '.zip'.
MaxName == 3

\* glob.glob("*.zip") lists the names that end in '.zip' and do not start
\* with a '.' (line 29).
ZipNames ==
    {Append(stem, ".zip") : stem \in {t \in SeqsUpTo(NameChars \cup {".sqlite", ".zip"}, MaxName) :
                                         Len(t) > 0 /\ t[1] \in NameChars}}

\* str.upper(), token by token
UpperTok(c) ==
    CASE c = "a" -> "A"
      [] c = ".sqlite" -> ".SQLITE"
      [] c = ".zip" -> ".ZIP"
      [] c = "unknown" -> "UNKNOWN"
      [] OTHER -> c

Upper(s) == [i \in 1..Len(s) |-> UpperTok(s[i])]

\* s.replace('.sqlite.zip', ''): left to right, occurrences do not overlap
RECURSIVE RemoveSqliteZip(_)
RemoveSqliteZip(s) ==
    IF Len(s) = 0 THEN <<>>
    ELSE IF Len(s) >= 2 /\ s[1] = ".sqlite" /\ s[2] = ".zip"
    THEN RemoveSqliteZip(SubSeq(s, 3, Len(s)))
    ELSE <<s[1]>> \o RemoveSqliteZip(Tail(s))

\* Line 33: pack_name
PackName(zip_file) == Remove(RemoveSqliteZip(zip_file), ".zip")

\* s.split('-'): the parts between the hyphens
RECURSIVE Split(_)
Split(s) ==
    IF ~Contains(s, "-") THEN <<s>>
    ELSE LET i == CHOOSE k \in 1..Len(s) :
                      s[k] = "-" /\ \A j \in 1..(k - 1) : s[j] # "-"
         IN  <<SubSeq(s, 1, i - 1)>> \o Split(SubSeq(s, i + 1, Len(s)))

Unknown == <<"unknown">>

\* Lines 51-61: <<source_lang, target_lang>>
LanguagesAnyParts(pack_name) ==
    IF Contains(pack_name, "-")
    THEN <<Split(pack_name)[1], Split(pack_name)[2]>>
    ELSE <<pack_name, Unknown>>

\* str.lower(), token by token
LowerTok(c) == IF c = "B" THEN "b" ELSE c

\* The two tags are lower-cased
LanguagesFolded(pack_name) ==
    LET lower(s) == [i \in 1..Len(s) |-> LowerTok(s[i])]
    IN  IF Contains(pack_name, "-") /\ Len(Split(pack_name)) = 2
        THEN <<lower(Split(pack_name)[1]), lower(Split(pack_name)[2])>>
        ELSE <<lower(pack_name), Unknown>>

Languages(pack_name) ==
    IF Contains(pack_name, "-")
    THEN IF Len(Split(pack_name)) = 2
         THEN <<Split(pack_name)[1], Split(pack_name)[2]>>
         ELSE <<pack_name, Unknown>>
    ELSE <<pack_name, Unknown>>

\* JSON values of a sidecar
JInt(n) == <<"int", n>>

JStr(x) == <<"str", x>>

SampleValue(k) ==
    CASE k = "entries" -> JInt(500)
      [] k = "source" -> JStr("FreeDict")
      [] k = "version" -> JStr("2.0")
      [] k = "description" -> JStr("A dictionary")

\* What <pack_name>.json is on disk: no file; a file that cannot be read or
\* is not JSON; a JSON object; a JSON value that is not an object.
Sidecars ==
    {[kind |-> "absent"], [kind |-> "invalid"], [kind |-> "array"]}
    \cup {[kind |-> "object", obj |-> [k \in K |-> SampleValue(k)]] : K \in SUBSET ({"entries", "source", "version", "description"})}

\* Lines 37-44: metadata, for a sidecar that is absent, unparseable or an object
Metadata(sidecar) ==
    IF sidecar.kind = "object" THEN sidecar.obj ELSE <<>>

\* Lines 73-76 call metadata.get, which only a dict has.
GetRaises(sidecar) == sidecar.kind = "array"

\* metadata.get(key, default)
Get(metadata, key, default) ==
    IF key \in DOMAIN metadata THEN metadata[key] ELSE default

\* Lines 12-17: get_file_size, stat being the size os.path.getsize returns, or
\* None when it raises
GetFileSize(stat) == IF IsNone(stat) THEN 0 ELSE stat[1]

\* Line 48
SizeMbTrunc(size_bytes) == (size_bytes * 10) \div MiB

SizeMb(size_bytes) == RoundTenths(size_bytes, MiB)

DefaultDescription(source_lang, target_lang) ==
    <<"Bilingual dictionary for ">> \o source_lang \o <<" to ">> \o target_lang
        \o <<" translation">>

\* Lines 73-76: one of the four fields taken from the sidecar
MetaField(metadata, key, default) == Get(metadata, key, default)

DisplayNameAsIs(source_lang, target_lang) ==
    source_lang \o <<"-">> \o target_lang \o <<" Dictionary">>

\* Line 65: name
DisplayName(source_lang, target_lang) ==
    Upper(source_lang) \o <<"-">> \o Upper(target_lang) \o <<" Dictionary">>

\* Lines 33-77: the record of one archive file
PackEntry(zip_file, stat, sidecar) ==
    LET pack_name == PackName(zip_file)
        metadata == Metadata(sidecar)
        size_bytes == GetFileSize(stat)
        source_lang == Languages(pack_name)[1]
        target_lang == Languages(pack_name)[2]
    IN  [id |-> pack_name,
         name |-> DisplayName(source_lang, target_lang),
         source_language |-> source_lang,
         target_language |-> target_lang,
         type |-> "bilingual",
         format |-> "sqlite",
         file |-> zip_file,
         size_bytes |-> size_bytes,
         size_mb |-> SizeMb(size_bytes),
         entries |-> MetaField(metadata, "entries", JInt(0)),
         source |-> MetaField(metadata, "source", JStr("Wiktionary")),
         version |-> MetaField(metadata, "version", JStr("1.0")),
         description |-> MetaField(metadata, "description",
                                   JStr(DefaultDescription(source_lang, target_lang)))]

\* ---- one pass of the loop body (lines 31-79) over every archive the
\* ---- directory may hold

\* Sizes up to MaxSizeUnits eighths of a MiB, and one byte more
MaxSizeUnits == 9

PkInit ==
    /\ pk_pc = "file"
    /\ pk_file \in ZipNames
    /\ pk_stat \in {None} \cup {Some(n) : n \in ({k * (MiB \div 8) + j : k \in 0..MaxSizeUnits, j \in {0, 1}})}
    /\ pk_sidecar \in Sidecars
    /\ pack_entry = None
    /\ OthersOff("pack")

PkBuild ==
    /\ pk_pc = "file"
    /\ ~GetRaises(pk_sidecar)
    /\ pack_entry' = Some(PackEntry(pk_file, pk_stat, pk_sidecar))
    /\ pk_pc' = "built"
    /\ UNCHANGED <<pk_file, pk_stat, pk_sidecar>>
    /\ UNCHANGED <<fdVars, regVars, qVars, bgVars, wkVars, fmVars, glVars, tcVars>>

PkRaise ==
    /\ pk_pc = "file"
    /\ GetRaises(pk_sidecar)
    /\ pk_pc' = "raised"
    /\ UNCHANGED <<pk_file, pk_stat, pk_sidecar, pack_entry>>
    /\ UNCHANGED <<fdVars, regVars, qVars, bgVars, wkVars, fmVars, glVars, tcVars>>

\* ----------------------------------------------------------- claims C2-C4

Hyphens(s) == Count(s, "-")

\* C2: a pack id with no hyphen or with two or more never makes the record
\* fail for its languages: target_language is "unknown", source_language is
\* the whole id, and name is the upper-cased id then "-UNKNOWN Dictionary".
C2_UnknownTarget ==
    (pk_pc # "file" /\ Hyphens(PackName(pk_file)) # 1 /\ ~GetRaises(pk_sidecar)) =>
        /\ pk_pc = "built"
        /\ pack_entry[1].target_language = <<"unknown">>
        /\ pack_entry[1].source_language = PackName(pk_file)
        /\ pack_entry[1].name
             = Upper(PackName(pk_file)) \o <<"-", "UNKNOWN", " Dictionary">>

\* The record of 'a--.zip', an id with two hyphens
C2_Witness ==
    /\ pk_pc = "built"
    /\ pk_file = <<"a", "-", "-", ".zip">>
    /\ pack_entry[1].target_language = <<"unknown">>
    /\ pack_entry[1].name = <<"A", "-", "-", "-", "UNKNOWN", " Dictionary">>

\* C3: a pack id with exactly one hyphen gives source_language = the part
\* before it, target_language = the part after it, and name = the two parts
\* upper-cased, joined by a hyphen, then " Dictionary".
C3_OneHyphen ==
    (pk_pc = "built" /\ Hyphens(PackName(pk_file)) = 1) =>
        LET id == PackName(pk_file)
            h == CHOOSE i \in 1..Len(id) : id[i] = "-"
            before == SubSeq(id, 1, h - 1)
            after == SubSeq(id, h + 1, Len(id))
        IN  /\ pack_entry[1].source_language = before
            /\ pack_entry[1].target_language = after
            /\ pack_entry[1].name
                 = Upper(before) \o <<"-">> \o Upper(after) \o <<" Dictionary">>

\* The record of 'a-B.zip'
C3_Witness ==
    /\ pk_pc = "built"
    /\ pk_file = <<"a", "-", "B", ".zip">>
    /\ pack_entry[1].name = <<"A", "-", "B", " Dictionary">>

\* C4: with no sidecar or one that parses to an object, the record has the
\* pack id, the archive's size, that size in MiB to the nearest tenth, and
\* entries, source, version and description from the sidecar where it has
\* the key and the defaults where it has not.
C4_RecordFields ==
    (pk_pc = "built" /\ pk_sidecar.kind \in {"object", "absent"}) =>
        LET rec == pack_entry[1]
            has(k) == pk_sidecar.kind = "object" /\ k \in DOMAIN pk_sidecar.obj
        IN  /\ rec.id = PackName(pk_file)
            /\ ~IsNone(pk_stat) => rec.size_bytes = pk_stat[1]
            /\ 2 * Abs(rec.size_mb * MiB - rec.size_bytes * 10) <= MiB
            /\ rec.entries = IF has("entries") THEN pk_sidecar.obj["entries"] ELSE JInt(0)
            /\ rec.source = IF has("source") THEN pk_sidecar.obj["source"]
                            ELSE JStr("Wiktionary")
            /\ rec.version = IF has("version") THEN pk_sidecar.obj["version"]
                             ELSE JStr("1.0")
            /\ rec.description
                 = IF has("description") THEN pk_sidecar.obj["description"]
                   ELSE JStr(<<"Bilingual dictionary for ">> \o rec.source_language
                             \o <<" to ">> \o rec.target_language \o <<" translation">>)

\* Scenario 1 of the specification: a 1 MiB archive whose sidecar holds
\* entries and version only
C4_Witness ==
    /\ pk_pc = "built"
    /\ pk_stat = Some(MiB)
    /\ pk_sidecar.kind = "object"
    /\ DOMAIN pk_sidecar.obj = {"entries", "version"}
    /\ pack_entry[1].size_mb = 10
    /\ pack_entry[1].entries = JInt(500)
    /\ pack_entry[1].source = JStr("Wiktionary")

\* ------------------------------------------------------ claims C15 and C20

\* C15: whatever the sidecar file holds (nothing readable, no JSON, JSON of
\* any shape), the record is built, and each of entries, source, version and
\* description the sidecar cannot supply has its default.
C15_SidecarNeverRaises ==
    pk_pc # "file" =>
        /\ pk_pc = "built"
        /\ LET supplied == IF pk_sidecar.kind = "object" THEN DOMAIN pk_sidecar.obj ELSE {}
               entry == pack_entry[1]
           IN  /\ "entries" \notin supplied => entry.entries = JInt(0)
               /\ "source" \notin supplied => entry.source = JStr("Wiktionary")
               /\ "version" \notin supplied => entry.version = JStr("1.0")
               /\ "description" \notin supplied =>
                      entry.description
                        = JStr(DefaultDescription(entry.source_language,
                                                  entry.target_language))

\* C20: the id of a record is the archive file name without its trailing
\* '.sqlite.zip', or without its trailing '.zip' when it does not end in
\* '.sqlite.zip'; everything before that suffix is kept as it is.
C20_TrailingSuffixOnly ==
    pk_pc = "built" =>
        LET n == Len(pk_file)
        IN  pack_entry[1].id
              = IF n >= 2 /\ pk_file[n - 1] = ".sqlite"
                THEN SubSeq(pk_file, 1, n - 2)
                ELSE SubSeq(pk_file, 1, n - 1)

\* --------------------------------------------------------------- claim C21

\* C21 as stated: the two language tags of a record are in one folded letter
\* case, both lower-cased or both upper-cased, whatever the letter case of
\* the file name.
C21_TagsFolded ==
    pk_pc = "built" =>
        LET source == pack_entry[1].source_language
            target == pack_entry[1].target_language
            lower(s) == [i \in 1..Len(s) |-> LowerTok(s[i])]
        IN  \/ source = lower(source) /\ target = lower(target)
            \/ source = Upper(source) /\ target = Upper(target)

\* C21, amended: the two language tags of a record keep the letter case of
\* the file name (joined by a hyphen they are the pack id when the id has one
\* hyphen, and otherwise the source tag is the pack id and the target tag is
\* "unknown"); only the name is letter-case-folded, to upper case.
C21_TagsKeepCase ==
    pk_pc = "built" =>
        LET id == PackName(pk_file)
            source == pack_entry[1].source_language
            target == pack_entry[1].target_language
        IN  /\ IF Hyphens(id) = 1
               THEN source \o <<"-">> \o target = id
               ELSE source = id /\ target = Unknown
            /\ pack_entry[1].name
                 = Upper(source) \o <<"-">> \o Upper(target) \o <<" Dictionary">>

\* The record of 'B-a.zip': the tags are 'B' and 'a', the name 'B-A Dictionary'
C21_Witness ==
    /\ pk_pc = "built"
    /\ pk_file = <<"B", "-", "a", ".zip">>
    /\ pack_entry[1].source_language = <<"B">>
    /\ pack_entry[1].target_language = <<"a">>
    /\ pack_entry[1].name = <<"B", "-", "A", " Dictionary">>

\* ---- generate_registry over a directory (lines 19-85)

\* Most archive files in the directory
MaxFiles == 2
\* Most runs of the script over the directory
MaxRuns == 2

\* The code point of a character; of the two tokens that start with '.',
\* '.sqlite' comes before '.zip'
TokRank(c) ==
    CASE c = "-" -> 45
      [] c = "." -> 46
      [] c = ".sqlite" -> 46
      [] c = ".zip" -> 47
      [] c \in Digits -> 48 + DigitVal(c)
      [] c = "B" -> 66
      [] c = "a" -> 97
      [] c = "b" -> 98
      [] c = "c" -> 99
      [] c = "d" -> 100
      [] c = "e" -> 101
      [] c = "f" -> 102
      [] c = "g" -> 103
      [] c = "h" -> 104
      [] c = "i" -> 105
      [] c = "j" -> 106
      [] c = "k" -> 107
      [] c = "l" -> 108
      [] c = "m" -> 109
      [] c = "n" -> 110
      [] c = "o" -> 111
      [] c = "p" -> 112
      [] c = "q" -> 113
      [] c = "r" -> 114
      [] c = "s" -> 115
      [] c = "t" -> 116
      [] c = "u" -> 117
      [] c = "v" -> 118
      [] c = "w" -> 119
      [] c = "x" -> 120
      [] c = "y" -> 121
      [] c = "z" -> 122

\* s < t for two str
RECURSIVE StrLess(_, _)
StrLess(s, t) ==
    IF Len(t) = 0 THEN FALSE
    ELSE IF Len(s) = 0 THEN TRUE
    ELSE IF s[1] # t[1] THEN TokRank(s[1]) < TokRank(t[1])
    ELSE StrLess(Tail(s), Tail(t))

\* The sequence with x put before the first element greater than x
RECURSIVE InsertName(_, _)
InsertName(x, sorted) ==
    IF Len(sorted) = 0 THEN <<x>>
    ELSE IF StrLess(x, sorted[1]) THEN <<x>> \o sorted
    ELSE <<sorted[1]>> \o InsertName(x, Tail(sorted))

RECURSIVE SortedNamesOf(_)
SortedNamesOf(names) ==
    IF Len(names) = 0 THEN <<>>
    ELSE InsertName(names[Len(names)], SortedNamesOf(SubSeq(names, 1, Len(names) - 1)))

ListingOrder(zip_files) == zip_files

\* Line 31: sorted(zip_files)
SortedFiles(zip_files) == SortedNamesOf(zip_files)

\* The orders glob.glob may list the files of S in
Listings(S) ==
    {l \in [1..Cardinality(S) -> S] : \A i, j \in 1..Cardinality(S) : i # j => l[i] # l[j]}

RegInit ==
    /\ dir_files \in {S \in SUBSET ({<<"B", "-", "a", ".zip">>, <<"B", ".zip">>, <<"a", "-", "B", ".sqlite", ".zip">>, <<"a", "-", "B", ".zip">>, <<"a", ".zip">>}) : Cardinality(S) <= MaxFiles}
    /\ dir_stat \in [dir_files -> ({Some(0), Some(MiB)})]
    /\ dir_sidecar \in [{PackName(f) : f \in dir_files} -> ({[kind |-> "absent"], [kind |-> "array"], [kind |-> "object", obj |-> [k \in {"entries", "version"} |-> SampleValue(k)]]})]
    /\ clock = 0
    /\ listings = <<>>
    /\ runs = <<>>
    /\ OthersOff("generate_registry")

\* Lines 19-85: one run.  The loop body raises at the first archive whose
\* sidecar is JSON but no object, and the run returns no registry.
GenerateRegistry ==
    /\ Len(runs) < MaxRuns
    /\ \E zip_files \in Listings(dir_files) :
          LET files == SortedFiles(zip_files)
              raised == \E i \in 1..Len(files) : GetRaises(dir_sidecar[PackName(files[i])])
              packs == [i \in 1..Len(files) |->
                           PackEntry(files[i], dir_stat[files[i]],
                                     dir_sidecar[PackName(files[i])])]
          IN  /\ listings' = Append(listings, zip_files)
              /\ runs' = Append(runs,
                                IF raised
                                THEN [raised |-> TRUE, version |-> "1.0",
                                      timestamp |-> clock, packs |-> <<>>]
                                ELSE [raised |-> FALSE, version |-> "1.0",
                                      timestamp |-> clock, packs |-> packs])
    /\ clock' = clock + 1
    /\ UNCHANGED <<dir_files, dir_stat, dir_sidecar>>
    /\ UNCHANGED <<fdVars, pkVars, qVars, bgVars, wkVars, fmVars, glVars, tcVars>>

\* ---------------------------------------------------------------- claim C9

\* C9: any two runs over the same directory end the same way and return the
\* same packs sequence, whatever order the listing came in.
C9_Idempotent ==
    \A i, j \in 1..Len(runs) :
        /\ runs[i].raised = runs[j].raised
        /\ runs[i].packs = runs[j].packs

\* Two runs over two archives, listed in opposite orders, at different times
C9_Witness ==
    /\ Len(runs) = 2
    /\ Len(listings[1]) = 2
    /\ listings[1] # listings[2]
    /\ ~runs[1].raised
    /\ Len(runs[2].packs) = 2
    /\ runs[1].timestamp # runs[2].timestamp

\* --------------------------------------------------------------- claim C16

\* C16 as stated: the packs of a run are the records of the archive files in
\* the order the listing returned them.
C16_ScanOrder ==
    \A i \in 1..Len(runs) :
        ~runs[i].raised =>
            /\ Len(runs[i].packs) = Len(listings[i])
            /\ \A k \in 1..Len(listings[i]) : runs[i].packs[k].file = listings[i][k]

\* C16, amended: the packs of a run are the records of the listed archive
\* files, one each, in ascending order of file name, whatever order the
\* listing returned them in.
C16_FileNameOrder ==
    \A i \in 1..Len(runs) :
        ~runs[i].raised =>
            /\ Len(runs[i].packs) = Len(listings[i])
            /\ {runs[i].packs[k].file : k \in 1..Len(runs[i].packs)}
                 = {listings[i][k] : k \in 1..Len(listings[i])}
            /\ \A k \in 1..(Len(runs[i].packs) - 1) :
                   StrLess(runs[i].packs[k].file, runs[i].packs[k + 1].file)

\* A run whose listing returned 'a.zip' before 'B.zip'
C16_Witness ==
    /\ Len(runs) >= 1
    /\ ~runs[1].raised
    /\ listings[1] = << <<"a", ".zip">>, <<"B", ".zip">> >>
    /\ Len(runs[1].packs) = 2
    /\ runs[1].packs[1].file = <<"B", ".zip">>

\* --------------------------------------------------------------- claim C25

\* C25: no two records of the packs of a run have the same id.
C25_UniqueIds ==
    \A r \in 1..Len(runs) :
        \A i, j \in 1..Len(runs[r].packs) :
            i # j => runs[r].packs[i].id # runs[r].packs[j].id

\* ======================================================================
\* dictionaries (dict): insertion-ordered sequences of <<key, value>>
\* ======================================================================

DictHas(d, key) == \E i \in 1..Len(d) : d[i][1] = key

DictGet(d, key) == d[CHOOSE i \in 1..Len(d) : d[i][1] = key][2]

\* d[key] = value: a new key goes last, a key already there keeps its place
DictSet(d, key, value) ==
    IF DictHas(d, key)
    THEN [i \in 1..Len(d) |-> IF d[i][1] = key THEN <<key, value>> ELSE d[i]]
    ELSE Append(d, <<key, value>>)

Min(a, b) == IF a < b THEN a ELSE b

\* s[:n]
Prefix(s, n) == SubSeq(s, 1, Min(n, Len(s)))

\* t in s, for two str
Substring(t, s) ==
    \E i \in 1..(Len(s) - Len(t) + 1) : SubSeq(s, i, i + Len(t) - 1) = t

\* x in l, for a list l
InList(x, l) == \E i \in 1..Len(l) : l[i] = x

\* ======================================================================
\* the metadata-only probe (requests.head) and what it answers
\* ======================================================================

\* What requests.head does: raises (timeout, network error), or answers with
\* a status and perhaps a content-length header
Responses ==
    {[kind |-> "raise"]}
    \cup {[kind |-> "answer", status |-> 404, content_length |-> None]}
    \cup {[kind |-> "answer", status |-> 200, content_length |-> h] :
              h \in {None} \cup {Some(t) : t \in ({<<>>, <<"0">>, <<"x">>, <<"9", "0", "0", "0", "0", "0">>})}}

\* int(s) succeeds
CanInt(s) == Len(s) > 0 /\ \A i \in 1..Len(s) : s[i] \in Digits

\* The probe did not measure a size: no answer, a status other than 200, no
\* content-length, or one that is no number
ProbeFailed(resp) ==
    \/ resp.kind = "raise"
    \/ resp.status # 200
    \/ IsNone(resp.content_length)
    \/ ~CanInt(resp.content_length[1])

\* `if size:` on an optional int
Truthy(o) == ~IsNone(o) /\ o[1] # 0

\* ======================================================================
\* quick-scrape.py
\* ======================================================================
\* Lines 12-20: the keys of TOP_7_LANGUAGES, in order
TOP_7_LANGUAGES ==
    << << <<"e", "n", "g">>, "English">>,
      << <<"s", "p", "a">>, "Spanish">>,
      << <<"f", "r", "a">>, "French">>,
      << <<"d", "e", "u">>, "German">>,
      << <<"i", "t", "a">>, "Italian">>,
      << <<"p", "o", "r">>, "Portuguese">>,
      << <<"r", "u", "s">>, "Russian">> >>

\* Lines 52-63: freedict_tests, each <<pair, url>>
FreedictTests ==
    << << <<"e", "n", "g", "-", "s", "p", "a">>,
         "https://download.freedict.org/dictionaries/eng-spa/2024.10.10/freedict-eng-spa-2024.10.10.stardict.tar.xz">>,
      << <<"s", "p", "a", "-", "e", "n", "g">>,
         "https://download.freedict.org/dictionaries/spa-eng/0.3.1/freedict-spa-eng-0.3.1.stardict.tar.xz">>,
      << <<"e", "n", "g", "-", "f", "r", "a">>,
         "https://download.freedict.org/dictionaries/eng-fra/0.1.6/freedict-eng-fra-0.1.6.stardict.tar.xz">>,
      << <<"f", "r", "a", "-", "e", "n", "g">>,
         "https://download.freedict.org/dictionaries/fra-eng/0.4.1/freedict-fra-eng-0.4.1.stardict.tar.xz">>,
      << <<"e", "n", "g", "-", "d", "e", "u">>,
         "https://download.freedict.org/dictionaries/eng-deu/1.9-fd1/freedict-eng-deu-1.9-fd1.stardict.tar.xz">>,
      << <<"d", "e", "u", "-", "e", "n", "g">>,
         "https://download.freedict.org/dictionaries/deu-eng/1.9-fd1/freedict-deu-eng-1.9-fd1.stardict.tar.xz">>,
      << <<"e", "n", "g", "-", "r", "u", "s">>,
         "https://download.freedict.org/dictionaries/eng-rus/0.3/freedict-eng-rus-0.3.stardict.tar.xz">>,
      << <<"r", "u", "s", "-", "e", "n", "g">>,
         "https://download.freedict.org/dictionaries/rus-eng/0.2/freedict-rus-eng-0.2.stardict.tar.xz">>,
      << <<"e", "n", "g", "-", "a", "r", "a">>,
         "https://download.freedict.org/dictionaries/eng-ara/0.6.3/freedict-eng-ara-0.6.3.stardict.tar.xz">>,
      << <<"a", "r", "a", "-", "e", "n", "g">>,
         "https://download.freedict.org/dictionaries/ara-eng/0.6.3/freedict-ara-eng-0.6.3.stardict.tar.xz">> >>

\* Lines 83-93: wiktionary_tests, each <<pair, url>>
WiktionaryTests ==
    << << <<"e", "n", "g", "-", "e", "n", "g">>,
         "https://github.com/Vuizur/Wiktionary-Dictionaries/raw/master/English-English%20Wiktionary%20dictionary%20stardict.tar.gz">>,
      << <<"f", "r", "a", "-", "e", "n", "g">>,
         "https://github.com/Vuizur/Wiktionary-Dictionaries/raw/master/French-English%20Wiktionary%20dictionary%20stardict.tar.gz">>,
      << <<"d", "e", "u", "-", "e", "n", "g">>,
         "https://github.com/Vuizur/Wiktionary-Dictionaries/raw/master/German-English%20Wiktionary%20dictionary%20stardict.tar.gz">>,
      << <<"i", "t", "a", "-", "e", "n", "g">>,
         "https://github.com/Vuizur/Wiktionary-Dictionaries/raw/master/Italian-English%20Wiktionary%20dictionary%20stardict.tar.gz">>,
      << <<"p", "o", "r", "-", "e", "n", "g">>,
         "https://github.com/Vuizur/Wiktionary-Dictionaries/raw/master/Portuguese-English%20Wiktionary%20dictionary%20stardict.tar.gz">>,
      << <<"r", "u", "s", "-", "e", "n", "g">>,
         "https://github.com/Vuizur/Wiktionary-Dictionaries/raw/master/Russian-English%20Wiktionary%20dictionary%20stardict.tar.gz">>,
      << <<"a", "r", "a", "-", "e", "n", "g">>,
         "https://github.com/Vuizur/Wiktionary-Dictionaries/raw/master/Arabic-English%20Wiktionary%20dictionary%20stardict.tar.gz">>,
      << <<"h", "i", "n", "-", "e", "n", "g">>,
         "https://github.com/Vuizur/Wiktionary-Dictionaries/raw/master/Hindi-English%20Wiktionary%20dictionary%20stardict.tar.gz">>,
      << <<"z", "h", "o", "-", "e", "n", "g">>,
         "https://github.com/Vuizur/Wiktionary-Dictionaries/raw/master/Chinese-English%20Wiktionary%20dictionary%20stardict.tar.gz">> >>

\* Lines 113-120: bergamot_tests, each <<pair, url>>
BergamotTests ==
    << << <<"e", "n", "-", "e", "s">>,
         "https://data.statmt.org/bergamot/models/esen/enes.student.tiny11.v1.a7203a8f8e9daea8.tar.gz">>,
      << <<"e", "s", "-", "e", "n">>,
         "https://data.statmt.org/bergamot/models/esen/esen.student.tiny11.v1.09576f06d0ad805e.tar.gz">>,
      << <<"e", "n", "-", "f", "r">>,
         "https://data.statmt.org/bergamot/models/fren/enfr.student.tiny11.v1.805d112122af03d0.tar.gz">>,
      << <<"f", "r", "-", "e", "n">>,
         "https://data.statmt.org/bergamot/models/fren/fren.student.tiny11.v1.dccea16d03c0a389.tar.gz">>,
      << <<"e", "n", "-", "d", "e">>,
         "https://data.statmt.org/bergamot/models/deen/ende.student.tiny11.v2.93821e13b3c511b5.tar.gz">>,
      << <<"d", "e", "-", "e", "n">>,
         "https://data.statmt.org/bergamot/models/deen/deen.student.tiny11.v2.8ebe3e43b6bb6cce.tar.gz">> >>

\* Most candidates probed of each hard-coded list (its first ones)
MaxTests == 2

Tests(list) == SubSeq(list, 1, Min(MaxTests, Len(list)))

TestsOf(name) ==
    CASE name = "freedict" -> Tests(FreedictTests)
      [] name = "wiktionary" -> Tests(WiktionaryTests)
      [] name = "bergamot" -> Tests(BergamotTests)

\* Lines 22-31: test_url
TestUrl(resp) ==
    IF resp.kind = "raise" THEN None
    ELSE IF resp.status = 200
    THEN IF ~IsNone(resp.content_length) /\ Len(resp.content_length[1]) > 0
         THEN IF CanInt(resp.content_length[1])
              THEN Some(DigitsVal(resp.content_length[1]))
              ELSE None
         ELSE None
    ELSE None

\* Lines 67-77, 97-107, 124-134: what one candidate leaves in its results
QuickRecordAlways(d, pair, url, size) ==
    DictSet(d, pair, [url |-> url,
                      size_mb |-> RoundTenths(IF IsNone(size) THEN 0 ELSE size[1], MiB),
                      status |-> "verified"])

QuickRecord(d, pair, url, size) ==
    IF Truthy(size)
    THEN DictSet(d, pair, [url |-> url,
                           size_mb |-> RoundTenths(size[1], MiB),
                           status |-> "verified"])
    ELSE d

\* The number of i in 1..n with P(i)
CountIf(n, P(_)) == Cardinality({i \in 1..n : P(i)})

\* pair.replace('-', ' ').split()
Words(pair) == SelectSeq(Split(pair), LAMBDA w : Len(w) > 0)

\* Lines 141-163: language_coverage
Coverage(results) ==
    [l \in 1..Len(TOP_7_LANGUAGES) |->
        LET lang_code == TOP_7_LANGUAGES[l][1]
            counts(d) == CountIf(Len(d), LAMBDA i :
                             \/ Substring(Prefix(lang_code, 3), d[i][1])
                             \/ Substring(lang_code, d[i][1]))
            dict_count == counts(results.freedict) + counts(results.wiktionary)
            translations == CountIf(Len(results.bergamot), LAMBDA i :
                                \/ InList(Prefix(lang_code, 2), Words(results.bergamot[i][1]))
                                \/ InList(lang_code, Words(results.bergamot[i][1])))
        IN  <<lang_code, [name |-> TOP_7_LANGUAGES[l][2],
                          dictionaries |-> dict_count,
                          translations |-> translations,
                          total |-> dict_count + translations]>>]

\* Lines 165-170: results['summary']
Summary(results) ==
    [total_freedict |-> Len(results.freedict),
     total_wiktionary |-> Len(results.wiktionary),
     total_bergamot |-> Len(results.bergamot),
     language_coverage |-> Coverage(results)]

QInit ==
    /\ q_pc = "freedict"
    /\ q_i = 0
    /\ q_probed = <<>>
    /\ q_results = [freedict |-> <<>>, wiktionary |-> <<>>, bergamot |-> <<>>,
                    summary |-> None]
    /\ q_file = None

\* Lines 65-77, 95-107, 122-134: one pass of the loop over one of the three
\* lists; after the last candidate of a list the run goes on to the next
\* list, and after the last list to the summary
QTest ==
    \E name \in {"freedict", "wiktionary", "bergamot"} :
        /\ q_pc = name
        /\ q_i < Len(TestsOf(name))
        /\ \E resp \in Responses :
              LET pair == TestsOf(name)[q_i + 1][1]
                  url == TestsOf(name)[q_i + 1][2]
                  size == TestUrl(resp)
              IN  /\ q_results' = [q_results EXCEPT ![name] = QuickRecord(@, pair, url, size)]
                  /\ q_probed' = Append(q_probed, [list |-> name, pair |-> pair,
                                                   failed |-> ProbeFailed(resp),
                                                   size |-> size])
        /\ q_i' = IF q_i + 1 = Len(TestsOf(name)) THEN 0 ELSE q_i + 1
        /\ q_pc' = IF q_i + 1 < Len(TestsOf(name)) THEN name
                   ELSE IF name = "freedict" THEN "wiktionary"
                   ELSE IF name = "wiktionary" THEN "bergamot"
                   ELSE "summary"
        /\ UNCHANGED q_file
        /\ UNCHANGED <<fdVars, pkVars, regVars, bgVars, wkVars, fmVars, glVars, tcVars>>

\* Lines 136-174: the summary is computed and the report written
QSummary ==
    /\ q_pc = "summary"
    /\ q_results' = [q_results EXCEPT !.summary = Some(Summary(q_results))]
    /\ q_file' = Some(q_results')
    /\ q_pc' = "done"
    /\ UNCHANGED <<q_i, q_probed>>
    /\ UNCHANGED <<fdVars, pkVars, regVars, bgVars, wkVars, fmVars, glVars, tcVars>>

QNext == QTest \/ QSummary

\* ======================================================================
\* the sort every scraper ends with
\* ======================================================================

\* x[1]['size_mb'] or 0, for an item x = <<key, record>>, in tenths of a MiB
SortKey(item) ==
    IF IsNone(item[2].size_mb) THEN 0 ELSE item[2].size_mb[1]

\* The sorted list with x put after every item whose key is at least x's
RECURSIVE InsertDesc(_, _)
InsertDesc(x, sorted) ==
    IF Len(sorted) = 0 THEN <<x>>
    ELSE IF SortKey(sorted[1]) >= SortKey(x) THEN <<sorted[1]>> \o InsertDesc(x, Tail(sorted))
    ELSE <<x>> \o sorted

\* sorted(items, key=..., reverse=True): descending, and items with equal
\* keys stay in the order they came in
RECURSIVE SortedDesc(_)
SortedDesc(items) ==
    IF Len(items) = 0 THEN <<>>
    ELSE InsertDesc(items[Len(items)], SortedDesc(SubSeq(items, 1, Len(items) - 1)))

Reversed(items) == [i \in 1..Len(items) |-> items[Len(items) + 1 - i]]

\* sorted(items, key=...)[::-1]: descending, items with equal keys reversed
\* sorted(results.items(), key=...)[::-1]: ascending, then reversed; items
\* with equal keys end in the reverse of the order they came in
SortedAscReversed(results) == SortedDesc(Reversed(results))

\* The results as they were collected
Unsorted(results) == results

\* sorted(results.items(), key=lambda x: x[1]['size_mb'] or 0, reverse=True)
SortedResults(results) == SortedDesc(results)

\* ======================================================================
\* scrape-bergamot.py
\* ======================================================================

\* Lines 13-29: TOP_LANGUAGES, each <<code, name>>
TOP_LANGUAGES_Bergamot ==
    << <<<<"e", "n">>, "English">>,
       <<<<"e", "s">>, "Spanish">>,
       <<<<"f", "r">>, "French">>,
       <<<<"d", "e">>, "German">>,
       <<<<"i", "t">>, "Italian">>,
       <<<<"p", "t">>, "Portuguese">>,
       <<<<"r", "u">>, "Russian">>,
       <<<<"a", "r">>, "Arabic">>,
       <<<<"h", "i">>, "Hindi">>,
       <<<<"z", "h">>, "Chinese">>,
       <<<<"j", "a">>, "Japanese">>,
       <<<<"k", "o">>, "Korean">>,
       <<<<"n", "l">>, "Dutch">>,
       <<<<"p", "l">>, "Polish">>,
       <<<<"t", "r">>, "Turkish">> >>

InTop(table, code) == \E i \in 1..Len(table) : table[i][1] = code

\* table[code]
TopName(table, code) == table[CHOOSE i \in 1..Len(table) : table[i][1] = code][2]

\* Lines 132-139: known_models, each <<src_lang, tgt_lang, filename, model_dir>>
KnownModels ==
    << <<<<"e", "n">>, <<"e", "s">>,
          "enes.student.tiny11.v1.a7203a8f8e9daea8.tar.gz", "esen">>,
       <<<<"e", "s">>, <<"e", "n">>,
          "esen.student.tiny11.v1.09576f06d0ad805e.tar.gz", "esen">>,
       <<<<"e", "n">>, <<"f", "r">>,
          "enfr.student.tiny11.v1.805d112122af03d0.tar.gz", "fren">>,
       <<<<"f", "r">>, <<"e", "n">>,
          "fren.student.tiny11.v1.dccea16d03c0a389.tar.gz", "fren">>,
       <<<<"e", "n">>, <<"d", "e">>,
          "ende.student.tiny11.v2.93821e13b3c511b5.tar.gz", "deen">>,
       <<<<"d", "e">>, <<"e", "n">>,
          "deen.student.tiny11.v2.8ebe3e43b6bb6cce.tar.gz", "deen">> >>

\* Most entries of the translateLocally registry
MaxModels == 2
\* Most known models probed (the first ones of known_models)
MaxKnown == 2

\* The entries a registry holds: with or without a name, a url, and a
\* description and license
Models ==
    {[name |-> None, url |-> None, description |-> None, license |-> None]}
    \cup {[name |-> Some(n), url |-> u, description |-> x, license |-> x] :
              n \in {<<"e", "n", "-", "e", "s", "-", "t", "i", "n", "y">>,
                     <<"e", "s", "-", "e", "n", "-", "b", "a", "s", "e", "-", "v", "2">>,
                     <<"e", "n", "-", "x", "x", "-", "t", "i", "n", "y">>,
                     <<"e", "n", "e", "s", "-", "t", "i", "n", "y">>},
              u \in {None, Some(<<"https://translatelocally.com/model.tar.gz">>)},
              x \in {None, Some(<<"CC-BY-SA 4.0">>)}}

\* '-'.join(parts)
RECURSIVE Join(_)
Join(parts) ==
    IF Len(parts) = 0 THEN <<>>
    ELSE IF Len(parts) = 1 THEN parts[1]
    ELSE parts[1] \o <<"-">> \o Join(Tail(parts))

\* model.get(key, '')
OrEmpty(o) == IF IsNone(o) THEN <<>> ELSE o[1]

\* Lines 53-63: get_file_size
HeadFileSize(resp) ==
    IF resp.kind = "raise" THEN None
    ELSE IF resp.status = 200
    THEN IF ~IsNone(resp.content_length) /\ Len(resp.content_length[1]) > 0
         THEN IF CanInt(resp.content_length[1])
              THEN Some(DigitsVal(resp.content_length[1]))
              ELSE None
         ELSE None
    ELSE None

\* A size that is not known is written as 0
SizeMbOrZero(file_size) ==
    IF Truthy(file_size) THEN Some(RoundTenths(file_size[1], MiB)) ELSE Some(0)

\* round(file_size / (1024 * 1024), 1) if file_size else None
SizeMbIfAny(file_size) ==
    IF Truthy(file_size) THEN Some(RoundTenths(file_size[1], MiB)) ELSE None

\* Lines 76-94: get_file_size is called for the entry: it has a name of at
\* least three parts, both its languages are top languages, and it has a url
ProbesModel(model) ==
    /\ ~IsNone(model.name)
    /\ Len(Split(model.name[1])) >= 3
    /\ InTop(TOP_LANGUAGES_Bergamot, Split(model.name[1])[1])
    /\ InTop(TOP_LANGUAGES_Bergamot, Split(model.name[1])[2])
    /\ ~IsNone(model.url)

\* Lines 76-115: what one entry of the registry leaves in results, resp
\* being the answer to the probe of its url
ParseModel(results, model, resp) ==
    IF IsNone(model.name) THEN results
    ELSE LET name == model.name[1]
             parts == Split(name)
         IN  IF Len(parts) >= 3
             THEN LET src_lang == parts[1]
                      tgt_lang == parts[2]
                      model_type == Join(SubSeq(parts, 3, Len(parts)))
                      pair_key == src_lang \o <<"-">> \o tgt_lang
                      file_size == IF IsNone(model.url) THEN None ELSE HeadFileSize(resp)
                  IN  IF /\ InTop(TOP_LANGUAGES_Bergamot, src_lang)
                         /\ InTop(TOP_LANGUAGES_Bergamot, tgt_lang)
                      THEN DictSet(results, pair_key,
                               [pair |-> pair_key,
                                source_lang |-> [code |-> src_lang,
                                    name |-> TopName(TOP_LANGUAGES_Bergamot, src_lang)],
                                target_lang |-> [code |-> tgt_lang,
                                    name |-> TopName(TOP_LANGUAGES_Bergamot, tgt_lang)],
                                source |-> "translatelocally",
                                model_type |-> model_type,
                                name |-> name,
                                url |-> OrEmpty(model.url),
                                size_bytes |-> file_size,
                                size_mb |-> IF IsNone(model.url) THEN None
                                            ELSE SizeMbIfAny(file_size),
                                description |-> OrEmpty(model.description),
                                license |-> OrEmpty(model.license)])
                      ELSE results
             ELSE results

\* Lines 141-173: what one known model leaves in results
DiscoverModel(results, known, file_size) ==
    IF Truthy(file_size)
    THEN LET src_lang == known[1]
             tgt_lang == known[2]
             pair_key == src_lang \o <<"-">> \o tgt_lang
         IN  DictSet(results, pair_key,
                 [pair |-> pair_key,
                  source_lang |-> [code |-> src_lang,
                      name |-> TopName(TOP_LANGUAGES_Bergamot, src_lang)],
                  target_lang |-> [code |-> tgt_lang,
                      name |-> TopName(TOP_LANGUAGES_Bergamot, tgt_lang)],
                  source |-> "bergamot_statmt",
                  model_type |-> "tiny11",
                  url |-> <<"https://data.statmt.org/bergamot/models/", known[4], "/",
                            known[3]>>,
                  filename |-> known[3],
                  size_bytes |-> file_size,
                  size_mb |-> Some(RoundTenths(file_size[1], MiB))])
    ELSE results

\* Every item of `from` set in `into`, in order
RECURSIVE Update(_, _)
Update(into, from) ==
    IF Len(from) = 0 THEN into
    ELSE Update(DictSet(into, from[1][1], from[1][2]), Tail(from))

\* Both records of a key kept as one: the later one's fields over the
\* earlier one's
RECURSIVE UpdateFields(_, _)
UpdateFields(into, from) ==
    IF Len(from) = 0 THEN into
    ELSE LET key == from[1][1]
             new == from[1][2]
             old == DictGet(into, key)
             both == [f \in DOMAIN old \cup DOMAIN new |->
                         IF f \in DOMAIN new THEN new[f] ELSE old[f]]
         IN  UpdateFields(DictSet(into, key, IF DictHas(into, key) THEN both ELSE new),
                          Tail(from))

MergeFields(first, second) == UpdateFields(Update(<<>>, first), second)

\* Lines 181-198: all_results after both passes
Merge(first, second) == Update(Update(<<>>, first), second)

KnownTests == SubSeq(KnownModels, 1, Min(MaxKnown, Len(KnownModels)))

BgInit ==
    /\ bg_pc = "parse"
    /\ bg_n = 0
    /\ translatelocally_results = <<>>
    /\ bg_i = 0
    /\ bg_probed = <<>>
    /\ bergamot_results = <<>>
    /\ bg_file = None
    /\ bg_model = None
    /\ bg_probe = None

\* Lines 73-115: one entry of models_data
BgParseModel ==
    /\ bg_pc = "parse"
    /\ bg_n < MaxModels
    /\ \E model \in Models, resp \in Responses :
          /\ translatelocally_results' = ParseModel(translatelocally_results, model, resp)
          /\ bg_model' = Some(model)
          /\ bg_probe' = IF ProbesModel(model) THEN Some(ProbeFailed(resp)) ELSE None
    /\ bg_n' = bg_n + 1
    /\ UNCHANGED <<bg_pc, bg_i, bg_probed, bergamot_results, bg_file>>
    /\ UNCHANGED <<fdVars, pkVars, regVars, qVars, wkVars, fmVars, glVars, tcVars>>

\* Lines 67-68, 117: models_data is None or has no more entries
BgParseEnd ==
    /\ bg_pc = "parse"
    /\ bg_pc' = "discover"
    /\ UNCHANGED <<bg_n, translatelocally_results, bg_i, bg_probed, bergamot_results, bg_file,
                   bg_model, bg_probe>>
    /\ UNCHANGED <<fdVars, pkVars, regVars, qVars, wkVars, fmVars, glVars, tcVars>>

\* Lines 141-173: one known model
BgDiscover ==
    /\ bg_pc = "discover"
    /\ bg_i < Len(KnownTests)
    /\ \E resp \in Responses :
          LET known == KnownTests[bg_i + 1]
              file_size == HeadFileSize(resp)
          IN  /\ bergamot_results' = DiscoverModel(bergamot_results, known, file_size)
              /\ bg_probed' = Append(bg_probed,
                                     [pair |-> known[1] \o <<"-">> \o known[2],
                                      failed |-> ProbeFailed(resp),
                                      size |-> file_size])
    /\ bg_i' = bg_i + 1
    /\ bg_pc' = IF bg_i + 1 = Len(KnownTests) THEN "write" ELSE "discover"
    /\ UNCHANGED <<bg_n, translatelocally_results, bg_file, bg_model, bg_probe>>
    /\ UNCHANGED <<fdVars, pkVars, regVars, qVars, wkVars, fmVars, glVars, tcVars>>

\* Lines 196-217: the two passes are merged, sorted and written
BgWrite ==
    /\ bg_pc = "write"
    /\ LET sorted_results == SortedResults(Merge(translatelocally_results, bergamot_results))
       IN  bg_file' = Some([source |-> "bergamot_combined",
                            total_models_found |-> Len(sorted_results),
                            language_pairs_covered |-> Len(sorted_results),
                            translation_models |-> sorted_results])
    /\ bg_pc' = "done"
    /\ UNCHANGED <<bg_n, translatelocally_results, bg_i, bg_probed, bergamot_results,
                   bg_model, bg_probe>>
    /\ UNCHANGED <<fdVars, pkVars, regVars, qVars, wkVars, fmVars, glVars, tcVars>>

BgNext == BgParseModel \/ BgParseEnd \/ BgDiscover \/ BgWrite

\* ======================================================================
\* scrape-wiktionary.py and scrape-wiktionary-top10.py
\* ======================================================================

LowerLetters ==
    {"a", "b", "c", "d", "e", "f", "g", "h", "i", "j", "k", "l", "m", "n", "o", "p", "q", "r", "s", "t", "u", "v", "w", "x", "y", "z"}

\* str.lower() of one character
LowerChar(c) ==
    CASE c = "A" -> "a"
      [] c = "B" -> "b"
      [] c = "C" -> "c"
      [] c = "D" -> "d"
      [] c = "E" -> "e"
      [] c = "F" -> "f"
      [] c = "G" -> "g"
      [] c = "H" -> "h"
      [] c = "I" -> "i"
      [] c = "J" -> "j"
      [] c = "K" -> "k"
      [] c = "L" -> "l"
      [] c = "M" -> "m"
      [] c = "N" -> "n"
      [] c = "O" -> "o"
      [] c = "P" -> "p"
      [] c = "Q" -> "q"
      [] c = "R" -> "r"
      [] c = "S" -> "s"
      [] c = "T" -> "t"
      [] c = "U" -> "u"
      [] c = "V" -> "v"
      [] c = "W" -> "w"
      [] c = "X" -> "x"
      [] c = "Y" -> "y"
      [] c = "Z" -> "z"
      [] OTHER -> c

\* str.upper() of one character
UpperChar(c) ==
    CASE c = "a" -> "A"
      [] c = "b" -> "B"
      [] c = "c" -> "C"
      [] c = "d" -> "D"
      [] c = "e" -> "E"
      [] c = "f" -> "F"
      [] c = "g" -> "G"
      [] c = "h" -> "H"
      [] c = "i" -> "I"
      [] c = "j" -> "J"
      [] c = "k" -> "K"
      [] c = "l" -> "L"
      [] c = "m" -> "M"
      [] c = "n" -> "N"
      [] c = "o" -> "O"
      [] c = "p" -> "P"
      [] c = "q" -> "Q"
      [] c = "r" -> "R"
      [] c = "s" -> "S"
      [] c = "t" -> "T"
      [] c = "u" -> "U"
      [] c = "v" -> "V"
      [] c = "w" -> "W"
      [] c = "x" -> "X"
      [] c = "y" -> "Y"
      [] c = "z" -> "Z"
      [] OTHER -> c

Lower(s) == [i \in 1..Len(s) |-> LowerChar(s[i])]

\* str.title(): a letter that follows no letter is upper-cased, every other
\* letter lower-cased
Title(s) ==
    [i \in 1..Len(s) |->
        IF i = 1 \/ s[i - 1] \notin LowerLetters \cup {UpperChar(c) : c \in LowerLetters}
        THEN UpperChar(s[i]) ELSE LowerChar(s[i])]

\* scrape-wiktionary.py lines 16-75: TOP_LANGUAGES, each <<name, display name>>
TOP_LANGUAGES_Wiktionary ==
    << << <<"e", "n", "g", "l", "i", "s", "h">>, "English">>,
       << <<"s", "p", "a", "n", "i", "s", "h">>, "Spanish">>,
       << <<"f", "r", "e", "n", "c", "h">>, "French">>,
       << <<"g", "e", "r", "m", "a", "n">>, "German">>,
       << <<"i", "t", "a", "l", "i", "a", "n">>, "Italian">>,
       << <<"p", "o", "r", "t", "u", "g", "u", "e", "s", "e">>, "Portuguese">>,
       << <<"r", "u", "s", "s", "i", "a", "n">>, "Russian">>,
       << <<"a", "r", "a", "b", "i", "c">>, "Arabic">>,
       << <<"c", "h", "i", "n", "e", "s", "e">>, "Chinese">>,
       << <<"m", "a", "n", "d", "a", "r", "i", "n">>, "Chinese">>,
       << <<"j", "a", "p", "a", "n", "e", "s", "e">>, "Japanese">>,
       << <<"k", "o", "r", "e", "a", "n">>, "Korean">>,
       << <<"h", "i", "n", "d", "i">>, "Hindi">>,
       << <<"d", "u", "t", "c", "h">>, "Dutch">>,
       << <<"p", "o", "l", "i", "s", "h">>, "Polish">>,
       << <<"t", "u", "r", "k", "i", "s", "h">>, "Turkish">>,
       << <<"g", "r", "e", "e", "k">>, "Greek">>,
       << <<"c", "z", "e", "c", "h">>, "Czech">>,
       << <<"h", "u", "n", "g", "a", "r", "i", "a", "n">>, "Hungarian">>,
       << <<"f", "i", "n", "n", "i", "s", "h">>, "Finnish">>,
       << <<"s", "w", "e", "d", "i", "s", "h">>, "Swedish">>,
       << <<"n", "o", "r", "w", "e", "g", "i", "a", "n">>, "Norwegian">>,
       << <<"d", "a", "n", "i", "s", "h">>, "Danish">>,
       << <<"u", "k", "r", "a", "i", "n", "i", "a", "n">>, "Ukrainian">>,
       << <<"b", "u", "l", "g", "a", "r", "i", "a", "n">>, "Bulgarian">>,
       << <<"r", "o", "m", "a", "n", "i", "a", "n">>, "Romanian">>,
       << <<"s", "e", "r", "b", "i", "a", "n">>, "Serbian">>,
       << <<"c", "r", "o", "a", "t", "i", "a", "n">>, "Croatian">>,
       << <<"s", "l", "o", "v", "e", "n", "i", "a", "n">>, "Slovenian">>,
       << <<"s", "l", "o", "v", "a", "k">>, "Slovak">>,
       << <<"l", "i", "t", "h", "u", "a", "n", "i", "a", "n">>, "Lithuanian">>,
       << <<"l", "a", "t", "v", "i", "a", "n">>, "Latvian">>,
       << <<"e", "s", "t", "o", "n", "i", "a", "n">>, "Estonian">>,
       << <<"v", "i", "e", "t", "n", "a", "m", "e", "s", "e">>, "Vietnamese">>,
       << <<"t", "h", "a", "i">>, "Thai">>,
       << <<"i", "n", "d", "o", "n", "e", "s", "i", "a", "n">>, "Indonesian">>,
       << <<"m", "a", "l", "a", "y">>, "Malay">>,
       << <<"t", "a", "g", "a", "l", "o", "g">>, "Tagalog">>,
       << <<"b", "e", "n", "g", "a", "l", "i">>, "Bengali">>,
       << <<"t", "a", "m", "i", "l">>, "Tamil">>,
       << <<"t", "e", "l", "u", "g", "u">>, "Telugu">>,
       << <<"g", "u", "j", "a", "r", "a", "t", "i">>, "Gujarati">>,
       << <<"m", "a", "r", "a", "t", "h", "i">>, "Marathi">>,
       << <<"k", "a", "n", "n", "a", "d", "a">>, "Kannada">>,
       << <<"m", "a", "l", "a", "y", "a", "l", "a", "m">>, "Malayalam">>,
       << <<"p", "u", "n", "j", "a", "b", "i">>, "Punjabi">>,
       << <<"u", "r", "d", "u">>, "Urdu">>,
       << <<"p", "e", "r", "s", "i", "a", "n">>, "Persian">>,
       << <<"h", "e", "b", "r", "e", "w">>, "Hebrew">>,
       << <<"l", "a", "t", "i", "n">>, "Latin">>,
       << <<"e", "s", "p", "e", "r", "a", "n", "t", "o">>, "Esperanto">> >>

\* scrape-wiktionary.py lines 229-281: code_map, each <<name, code>>
CodeMapWiktionary ==
    << << <<"e", "n", "g", "l", "i", "s", "h">>, <<"e", "n">> >>,
       << <<"s", "p", "a", "n", "i", "s", "h">>, <<"e", "s">> >>,
       << <<"f", "r", "e", "n", "c", "h">>, <<"f", "r">> >>,
       << <<"g", "e", "r", "m", "a", "n">>, <<"d", "e">> >>,
       << <<"i", "t", "a", "l", "i", "a", "n">>, <<"i", "t">> >>,
       << <<"p", "o", "r", "t", "u", "g", "u", "e", "s", "e">>, <<"p", "t">> >>,
       << <<"r", "u", "s", "s", "i", "a", "n">>, <<"r", "u">> >>,
       << <<"a", "r", "a", "b", "i", "c">>, <<"a", "r">> >>,
       << <<"h", "i", "n", "d", "i">>, <<"h", "i">> >>,
       << <<"c", "h", "i", "n", "e", "s", "e">>, <<"z", "h">> >>,
       << <<"m", "a", "n", "d", "a", "r", "i", "n">>, <<"z", "h">> >>,
       << <<"j", "a", "p", "a", "n", "e", "s", "e">>, <<"j", "a">> >>,
       << <<"k", "o", "r", "e", "a", "n">>, <<"k", "o">> >>,
       << <<"d", "u", "t", "c", "h">>, <<"n", "l">> >>,
       << <<"p", "o", "l", "i", "s", "h">>, <<"p", "l">> >>,
       << <<"t", "u", "r", "k", "i", "s", "h">>, <<"t", "r">> >>,
       << <<"g", "r", "e", "e", "k">>, <<"e", "l">> >>,
       << <<"l", "a", "t", "i", "n">>, <<"l", "a">> >>,
       << <<"e", "s", "p", "e", "r", "a", "n", "t", "o">>, <<"e", "o">> >>,
       << <<"c", "z", "e", "c", "h">>, <<"c", "s">> >>,
       << <<"s", "l", "o", "v", "a", "k">>, <<"s", "k">> >>,
       << <<"h", "u", "n", "g", "a", "r", "i", "a", "n">>, <<"h", "u">> >>,
       << <<"f", "i", "n", "n", "i", "s", "h">>, <<"f", "i">> >>,
       << <<"s", "w", "e", "d", "i", "s", "h">>, <<"s", "v">> >>,
       << <<"n", "o", "r", "w", "e", "g", "i", "a", "n">>, <<"n", "o">> >>,
       << <<"d", "a", "n", "i", "s", "h">>, <<"d", "a">> >>,
       << <<"u", "k", "r", "a", "i", "n", "i", "a", "n">>, <<"u", "k">> >>,
       << <<"b", "u", "l", "g", "a", "r", "i", "a", "n">>, <<"b", "g">> >>,
       << <<"s", "e", "r", "b", "i", "a", "n">>, <<"s", "r">> >>,
       << <<"c", "r", "o", "a", "t", "i", "a", "n">>, <<"h", "r">> >>,
       << <<"r", "o", "m", "a", "n", "i", "a", "n">>, <<"r", "o">> >>,
       << <<"l", "i", "t", "h", "u", "a", "n", "i", "a", "n">>, <<"l", "t">> >>,
       << <<"l", "a", "t", "v", "i", "a", "n">>, <<"l", "v">> >>,
       << <<"e", "s", "t", "o", "n", "i", "a", "n">>, <<"e", "t">> >>,
       << <<"s", "l", "o", "v", "e", "n", "i", "a", "n">>, <<"s", "l">> >>,
       << <<"v", "i", "e", "t", "n", "a", "m", "e", "s", "e">>, <<"v", "i">> >>,
       << <<"t", "h", "a", "i">>, <<"t", "h">> >>,
       << <<"i", "n", "d", "o", "n", "e", "s", "i", "a", "n">>, <<"i", "d">> >>,
       << <<"m", "a", "l", "a", "y">>, <<"m", "s">> >>,
       << <<"t", "a", "g", "a", "l", "o", "g">>, <<"t", "l">> >>,
       << <<"h", "e", "b", "r", "e", "w">>, <<"h", "e">> >>,
       << <<"p", "e", "r", "s", "i", "a", "n">>, <<"f", "a">> >>,
       << <<"u", "r", "d", "u">>, <<"u", "r">> >>,
       << <<"b", "e", "n", "g", "a", "l", "i">>, <<"b", "n">> >>,
       << <<"t", "a", "m", "i", "l">>, <<"t", "a">> >>,
       << <<"t", "e", "l", "u", "g", "u">>, <<"t", "e">> >>,
       << <<"g", "u", "j", "a", "r", "a", "t", "i">>, <<"g", "u">> >>,
       << <<"m", "a", "r", "a", "t", "h", "i">>, <<"m", "r">> >>,
       << <<"k", "a", "n", "n", "a", "d", "a">>, <<"k", "n">> >>,
       << <<"m", "a", "l", "a", "y", "a", "l", "a", "m">>, <<"m", "l">> >>,
       << <<"p", "u", "n", "j", "a", "b", "i">>, <<"p", "a">> >> >>

\* scrape-wiktionary-top10.py lines 13-24: TOP_10_LANGUAGES
TOP_10_LANGUAGES ==
    << << <<"e", "n", "g", "l", "i", "s", "h">>, "English">>,
       << <<"s", "p", "a", "n", "i", "s", "h">>, "Spanish">>,
       << <<"f", "r", "e", "n", "c", "h">>, "French">>,
       << <<"g", "e", "r", "m", "a", "n">>, "German">>,
       << <<"i", "t", "a", "l", "i", "a", "n">>, "Italian">>,
       << <<"p", "o", "r", "t", "u", "g", "u", "e", "s", "e">>, "Portuguese">>,
       << <<"r", "u", "s", "s", "i", "a", "n">>, "Russian">>,
       << <<"c", "h", "i", "n", "e", "s", "e">>, "Chinese">>,
       << <<"j", "a", "p", "a", "n", "e", "s", "e">>, "Japanese">>,
       << <<"k", "o", "r", "e", "a", "n">>, "Korean">> >>

\* scrape-wiktionary-top10.py lines 28-40: code_map
CodeMapTop10 ==
    << << <<"e", "n", "g", "l", "i", "s", "h">>, <<"e", "n">> >>,
       << <<"s", "p", "a", "n", "i", "s", "h">>, <<"e", "s">> >>,
       << <<"f", "r", "e", "n", "c", "h">>, <<"f", "r">> >>,
       << <<"g", "e", "r", "m", "a", "n">>, <<"d", "e">> >>,
       << <<"i", "t", "a", "l", "i", "a", "n">>, <<"i", "t">> >>,
       << <<"p", "o", "r", "t", "u", "g", "u", "e", "s", "e">>, <<"p", "t">> >>,
       << <<"r", "u", "s", "s", "i", "a", "n">>, <<"r", "u">> >>,
       << <<"c", "h", "i", "n", "e", "s", "e">>, <<"z", "h">> >>,
       << <<"m", "a", "n", "d", "a", "r", "i", "n">>, <<"z", "h">> >>,
       << <<"j", "a", "p", "a", "n", "e", "s", "e">>, <<"j", "a">> >>,
       << <<"k", "o", "r", "e", "a", "n">>, <<"k", "o">> >> >>

\* The tail of a dictionary file name
WiktionaryTail == " Wiktionary dictionary stardict.tar.gz"

\* The file names the repository listing holds: a file name is a sequence of
\* characters and, at its end, the tail or another extension.  The names are
\* 'German-English', 'Mandarin-English', 'Chinese-English', 'Greek-English',
\* 'Klingon-Elvish' and 'Ido-Latin-English', each with the tail, and
\* 'README.md'.
RepoNames ==
    {Append(<<"G", "e", "r", "m", "a", "n", "-", "E", "n", "g", "l", "i", "s", "h">>, WiktionaryTail),
     Append(<<"M", "a", "n", "d", "a", "r", "i", "n", "-", "E", "n", "g", "l", "i", "s", "h">>, WiktionaryTail),
     Append(<<"C", "h", "i", "n", "e", "s", "e", "-", "E", "n", "g", "l", "i", "s", "h">>, WiktionaryTail),
     Append(<<"G", "r", "e", "e", "k", "-", "E", "n", "g", "l", "i", "s", "h">>, WiktionaryTail),
     Append(<<"K", "l", "i", "n", "g", "o", "n", "-", "E", "l", "v", "i", "s", "h">>, WiktionaryTail),
     Append(<<"I", "d", "o", "-", "L", "a", "t", "i", "n", "-", "E", "n", "g", "l", "i", "s", "h">>, WiktionaryTail),
     Append(<<"R", "E", "A", "D", "M", "E">>, ".md")}

\* Most files in the repository listing
MaxApiFiles == 2

\* The entries of the listing: with or without 'name', 'download_url', 'size'
FileInfos ==
    {[name |-> None, has_url |-> TRUE, size |-> None]}
    \cup {[name |-> Some(n), has_url |-> u, size |-> z] :
              n \in RepoNames, u \in BOOLEAN, z \in ({None, Some(0), Some(2 * MiB)})}

\* TOP_LANGUAGES or TOP_10_LANGUAGES
TopOf(script) ==
    IF script = "top10" THEN TOP_10_LANGUAGES ELSE TOP_LANGUAGES_Wiktionary

CodeMapOf(script) ==
    IF script = "top10" THEN CodeMapTop10 ELSE CodeMapWiktionary

\* The table is looked up with the name as it is
get_language_code_as_is(script, language_name) ==
    IF InTop(CodeMapOf(script), language_name)
    THEN TopName(CodeMapOf(script), language_name)
    ELSE Lower(Prefix(language_name, 2))

\* scrape-wiktionary.py lines 227-282, scrape-wiktionary-top10.py lines
\* 26-41: get_language_code
get_language_code(script, language_name) ==
    IF InTop(CodeMapOf(script), Lower(language_name))
    THEN TopName(CodeMapOf(script), Lower(language_name))
    ELSE Lower(Prefix(language_name, 2))

\* filename.endswith('stardict.tar.gz') and 'Wiktionary dictionary' in filename
LooksLikeDictionary(filename) ==
    Len(filename) > 0 /\ filename[Len(filename)] = WiktionaryTail

\* re.match(r'^([^-]+)-([^-]+)\s+Wiktionary\s+dictionary\s+stardict\.tar\.gz$'):
\* the two groups, or <<>> when the name does not match
MatchName(filename) ==
    LET parts == Split(SubSeq(filename, 1, Len(filename) - 1))
    IN  IF Len(parts) = 2 /\ Len(parts[1]) > 0 /\ Len(parts[2]) > 0 THEN parts ELSE <<>>

\* Either language is enough, in both scripts
InScopeEither(script, lang1, lang2) ==
    IF script = "top10"
    THEN InTop(TOP_10_LANGUAGES, lang1) \/ InTop(TOP_10_LANGUAGES, lang2)
    ELSE InTop(TOP_LANGUAGES_Wiktionary, lang1) \/ InTop(TOP_LANGUAGES_Wiktionary, lang2)

\* scrape-wiktionary.py line 103 (either language), scrape-wiktionary-top10.py
\* line 69 (both languages)
InScope(script, lang1, lang2) ==
    IF script = "top10"
    THEN InTop(TOP_10_LANGUAGES, lang1) /\ InTop(TOP_10_LANGUAGES, lang2)
    ELSE InTop(TOP_LANGUAGES_Wiktionary, lang1) \/ InTop(TOP_LANGUAGES_Wiktionary, lang2)

\* Lines 91-111 (57-77 of the top10 script): one entry of the listing.  A
\* missing 'name', or a missing 'download_url' of a file in scope, raises.
ScrapeFile(script, found, file_info) ==
    IF IsNone(file_info.name) THEN [raised |-> TRUE, dictionaries |-> found]
    ELSE LET filename == file_info.name[1]
             match == MatchName(filename)
             lang1 == Lower(match[1])
             lang2 == Lower(match[2])
         IN  IF LooksLikeDictionary(filename) /\ match # <<>>
                  /\ InScope(script, lang1, lang2)
             THEN IF file_info.has_url
                  THEN [raised |-> FALSE,
                        dictionaries |-> Append(found,
                            [filename |-> filename, lang1 |-> lang1, lang2 |-> lang2,
                             raw_url |-> <<"https://raw.githubusercontent.com/">> \o filename,
                             size_bytes |-> IF IsNone(file_info.size) THEN 0
                                            ELSE file_info.size[1]])]
                  ELSE [raised |-> TRUE, dictionaries |-> found]
             ELSE [raised |-> FALSE, dictionaries |-> found]

\* dict_info.get('size_bytes', 0) or get_file_size(url): the probe is made
\* only when the listing gave no size or a size of 0
NeedsProbe(dict_info) == dict_info.size_bytes = 0

FileSizeOf(dict_info, resp) ==
    IF NeedsProbe(dict_info) THEN HeadFileSize(resp) ELSE Some(dict_info.size_bytes)

\* Lines 152-178 (119-147 of the top10 script): the record of one file
WiktionaryRecord(script, dict_info, file_size) ==
    LET lang1 == dict_info.lang1
        lang2 == dict_info.lang2
        lang1_code == get_language_code(script, lang1)
        lang2_code == get_language_code(script, lang2)
        name(lang) == IF InTop(TopOf(script), lang)
                      THEN <<TopName(TopOf(script), lang)>> ELSE Title(lang)
        common == [pair |-> lang1_code \o <<"-">> \o lang2_code,
                   lang1 |-> [code |-> lang1_code, name |-> name(lang1),
                              full_name |-> Title(lang1)],
                   lang2 |-> [code |-> lang2_code, name |-> name(lang2),
                              full_name |-> Title(lang2)],
                   source |-> "wiktionary_vuizur",
                   filename |-> dict_info.filename,
                   url |-> dict_info.raw_url,
                   size_bytes |-> file_size,
                   size_mb |-> SizeMbIfAny(file_size),
                   type |-> IF lang1 # lang2 THEN "bilingual" ELSE "monolingual"]
    IN  IF script = "top10"
        THEN [f \in DOMAIN common \cup {"bidirectional", "priority"} |->
                 IF f = "bidirectional" THEN "True"
                 ELSE IF f = "priority" THEN "high"
                 ELSE common[f]]
        ELSE common

WkInit ==
    /\ wk_script \in {"wiktionary", "top10"}
    /\ wk_pc = "scrape"
    /\ wk_n = 0
    /\ dictionaries = <<>>
    /\ wk_i = 0
    /\ wk_probed = <<>>
    /\ wk_results = <<>>
    /\ wk_file = None
    /\ wk_file_info = None

\* Lines 91-111: one entry of the listing
WkScrapeFile ==
    /\ wk_pc = "scrape"
    /\ wk_n < MaxApiFiles
    /\ \E file_info \in FileInfos :
          LET got == ScrapeFile(wk_script, dictionaries, file_info)
          IN  /\ ~got.raised
              /\ dictionaries' = got.dictionaries
              /\ wk_file_info' = Some(file_info)
    /\ wk_n' = wk_n + 1
    /\ UNCHANGED <<wk_script, wk_pc, wk_i, wk_probed, wk_results, wk_file>>
    /\ UNCHANGED <<fdVars, pkVars, regVars, qVars, bgVars, fmVars, glVars, tcVars>>

\* Lines 115-117: an entry raised, or the request did: the scan returns []
WkScrapeRaise ==
    /\ wk_pc = "scrape"
    /\ \/ wk_n = 0
       \/ /\ wk_n < MaxApiFiles
          /\ \E file_info \in FileInfos : ScrapeFile(wk_script, dictionaries, file_info).raised
    /\ dictionaries' = <<>>
    /\ wk_pc' = "loop"
    /\ wk_file_info' = None
    /\ UNCHANGED <<wk_script, wk_n, wk_i, wk_probed, wk_results, wk_file>>
    /\ UNCHANGED <<fdVars, pkVars, regVars, qVars, bgVars, fmVars, glVars, tcVars>>

\* Line 113: the listing has no more entries
WkScrapeEnd ==
    /\ wk_pc = "scrape"
    /\ wk_pc' = "loop"
    /\ wk_file_info' = None
    /\ UNCHANGED <<wk_script, wk_n, dictionaries, wk_i, wk_probed, wk_results, wk_file>>
    /\ UNCHANGED <<fdVars, pkVars, regVars, qVars, bgVars, fmVars, glVars, tcVars>>

\* Lines 143-185: one file of dictionaries
WkCheck ==
    /\ wk_pc = "loop"
    /\ wk_i < Len(dictionaries)
    /\ \E resp \in Responses :
          LET dict_info == dictionaries[wk_i + 1]
              file_size == FileSizeOf(dict_info, resp)
              rec == WiktionaryRecord(wk_script, dict_info, file_size)
          IN  /\ wk_results' = DictSet(wk_results, rec.pair, rec)
              /\ wk_probed' = Append(wk_probed,
                                     [filename |-> dict_info.filename,
                                      pair |-> rec.pair,
                                      listed |-> dict_info.size_bytes,
                                      probed |-> NeedsProbe(dict_info),
                                      failed |-> NeedsProbe(dict_info) /\ ProbeFailed(resp),
                                      size |-> file_size])
    /\ wk_i' = wk_i + 1
    /\ UNCHANGED <<wk_script, wk_pc, wk_n, dictionaries, wk_file, wk_file_info>>
    /\ UNCHANGED <<fdVars, pkVars, regVars, qVars, bgVars, fmVars, glVars, tcVars>>

\* Lines 187-203: the results are sorted and written
WkWrite ==
    /\ wk_pc = "loop"
    /\ wk_i = Len(dictionaries)
    /\ LET sorted_results == SortedResults(wk_results)
       IN  wk_file' = Some([source |-> IF wk_script = "top10"
                                       THEN "wiktionary_vuizur_top10"
                                       ELSE "wiktionary_vuizur",
                            total_dictionaries_found |-> Len(sorted_results),
                            dictionaries |-> sorted_results])
    /\ wk_pc' = "done"
    /\ UNCHANGED <<wk_script, wk_n, dictionaries, wk_i, wk_probed, wk_results, wk_file_info>>
    /\ UNCHANGED <<fdVars, pkVars, regVars, qVars, bgVars, fmVars, glVars, tcVars>>

\* ======================================================================
\* get_language_code, called on its own
\* ======================================================================

\* Longest beginning of a name whose letters may be upper case
MaxCased == 3

\* The names get_language_code is called with: names of both tables, names
\* of neither, the empty name, each with any of its first letters upper case
LanguageNames ==
    {[i \in 1..Len(n) |-> IF i \in S THEN UpperChar(n[i]) ELSE n[i]] :
        n \in {<<>>, <<"x">>, <<"i", "d", "o">>,
               <<"e", "n", "g", "l", "i", "s", "h">>,
               <<"m", "a", "n", "d", "a", "r", "i", "n">>,
               <<"k", "l", "i", "n", "g", "o", "n">>},
        S \in SUBSET (1..MaxCased)}

GlInit ==
    /\ gl_script \in {"wiktionary", "top10"}
    /\ gl_pc = "call"
    /\ gl_name \in LanguageNames
    /\ gl_code = None

\* scrape-wiktionary.py lines 227-282, scrape-wiktionary-top10.py lines 26-41
GlCall ==
    /\ gl_pc = "call"
    /\ gl_code' = Some(get_language_code(gl_script, gl_name))
    /\ gl_pc' = "done"
    /\ UNCHANGED <<gl_script, gl_name>>
    /\ UNCHANGED <<fdVars, pkVars, regVars, qVars, bgVars, wkVars, fmVars, tcVars>>

\* C14: get_language_code returns, for a name whose lower-cased form is a key
\* of the name-to-code table, the code the table gives that key, whatever the
\* letter case of the name, and for every other name the first two
\* characters of the name, lower-cased.
C14_LanguageCode ==
    gl_pc = "done" =>
        LET table == IF gl_script = "top10" THEN CodeMapTop10 ELSE CodeMapWiktionary
            keys == {i \in 1..Len(table) : table[i][1] = Lower(gl_name)}
        IN  /\ \A i \in keys : gl_code = Some(table[i][2])
            /\ keys = {} =>
                  gl_code = Some(Lower(SubSeq(gl_name, 1, IF Len(gl_name) < 2
                                                         THEN Len(gl_name) ELSE 2)))

\* The call returned 'en' for a name that is 'english' with upper-case letters
C14_Witness ==
    /\ gl_pc = "done"
    /\ gl_name # Lower(gl_name)
    /\ Lower(gl_name) = <<"e", "n", "g", "l", "i", "s", "h">>
    /\ gl_code = Some(<<"e", "n">>)

\* ======================================================================
\* test_conversion.py: main
\* ======================================================================

\* main returns 0 whatever the conversion step returned
MainReturnsZero(success) == 0

\* Lines 176-183 and 192: what main returns once the conversion step returned
MainReturns(success) == IF success THEN 0 ELSE 1

\* Line 19: requests.get(url) is given no timeout, and waits for as long as
\* the server sends nothing
DownloadTimeout == None

TcInit ==
    /\ tc_pc = "setup"
    /\ tc_fs = None
    /\ tc_conv = None
    /\ tc_exit = None
    /\ tc_server \in {"responds", "silent"}
    /\ tc_verify = None
    /\ tc_cwd = "parent"

\* Lines 189-190: the finally clause of main, run on every way out of the
\* try, changes to the parent of the working directory
Finally == tc_cwd' = IF tc_pc' = "done" THEN "parent" ELSE tc_cwd

\* Lines 158-160: mkdir and chdir, before the try; what they raise leaves main
TcSetup ==
    /\ tc_pc = "setup"
    /\ \E ok \in BOOLEAN :
          /\ tc_pc' = IF ok THEN "download" ELSE "escaped"
          /\ tc_cwd' = IF ok THEN "conversion_test" ELSE tc_cwd
    /\ UNCHANGED <<tc_fs, tc_conv, tc_exit, tc_server, tc_verify>>
    /\ UNCHANGED <<fdVars, pkVars, regVars, qVars, bgVars, wkVars, fmVars, glVars>>

\* Lines 14-26 and 164: download_test_dict; requests.get, raise_for_status
\* and the write raise subclasses of Exception, caught at line 185.  The
\* call returns or raises once the server has answered or the timeout has
\* run out.
TcDownload ==
    /\ tc_pc = "download"
    /\ tc_server = "responds" \/ ~IsNone(DownloadTimeout)
    /\ \E ok \in BOOLEAN :
          IF ok /\ tc_server = "responds"
          THEN tc_pc' = "extract" /\ tc_exit' = tc_exit
          ELSE tc_pc' = "done" /\ tc_exit' = Some(1)
    /\ Finally
    /\ UNCHANGED <<tc_fs, tc_conv, tc_server, tc_verify>>
    /\ UNCHANGED <<fdVars, pkVars, regVars, qVars, bgVars, wkVars, fmVars, glVars>>

\* Lines 28-41 and 167: extract_dict.  The archive cannot be opened, or it
\* leaves a test directory with or without a subdirectory; files are the
\* files of that subdirectory named after its .ifo file, and gz_ok tells
\* whether its compressed files can be decompressed.
TcExtract ==
    /\ tc_pc = "extract"
    /\ \/ /\ tc_pc' = "done"
          /\ tc_exit' = Some(1)
          /\ tc_fs' = tc_fs
       \/ \E dir \in BOOLEAN, gz_ok \in BOOLEAN,
             files \in SUBSET {"ifo", "idx", "idx.gz", "dict", "dict.dz"} :
              /\ ~dir => files = {} /\ gz_ok
              /\ tc_fs' = Some([dir |-> dir, files |-> files, gz_ok |-> gz_ok])
              /\ IF dir
                 THEN tc_pc' = "prepare" /\ tc_exit' = tc_exit
                 ELSE tc_pc' = "done" /\ tc_exit' = Some(1)
    /\ Finally
    /\ UNCHANGED <<tc_conv, tc_server, tc_verify>>
    /\ UNCHANGED <<fdVars, pkVars, regVars, qVars, bgVars, wkVars, fmVars, glVars>>

\* Lines 43-83 and 170: prepare_stardict_files.  Each output file is opened
\* for writing before the compressed file is read, so it is there even when
\* the read raises.
TcPrepare ==
    /\ tc_pc = "prepare"
    /\ LET fs == tc_fs[1]
           dict_raises == "dict.dz" \in fs.files /\ ~fs.gz_ok
           with_dict == IF "dict.dz" \in fs.files THEN fs.files \cup {"dict"} ELSE fs.files
           idx_raises == ~dict_raises /\ "idx.gz" \in fs.files /\ ~fs.gz_ok
           with_idx == IF ~dict_raises /\ "idx.gz" \in fs.files
                       THEN with_dict \cup {"idx"} ELSE with_dict
       IN  IF "ifo" \notin fs.files
           THEN tc_pc' = "done" /\ tc_exit' = Some(1) /\ tc_fs' = tc_fs
           ELSE /\ tc_fs' = Some([fs EXCEPT !.files = with_idx])
                /\ IF dict_raises \/ idx_raises \/ ~({"idx", "dict"} \subseteq with_idx)
                   THEN tc_pc' = "done" /\ tc_exit' = Some(1)
                   ELSE tc_pc' = "convert" /\ tc_exit' = tc_exit
    /\ Finally
    /\ UNCHANGED <<tc_conv, tc_server, tc_verify>>
    /\ UNCHANGED <<fdVars, pkVars, regVars, qVars, bgVars, wkVars, fmVars, glVars>>

\* Lines 85-114 and 173-192: test_pyglossary_conversion returns False on an
\* ImportError and on any other Exception; verify_sqlite (lines 116-150),
\* called when the conversion returned True, returns True, or False on any
\* Exception, and main does not look at what it returns
TcConvert ==
    /\ tc_pc = "convert"
    /\ \E outcome \in {"converted", "ImportError", "Exception"} :
          /\ tc_conv' = Some(outcome)
          /\ IF outcome = "converted"
             THEN \E verified \in BOOLEAN : tc_verify' = Some(verified)
             ELSE tc_verify' = tc_verify
          /\ tc_exit' = Some(MainReturns(outcome = "converted"))
    /\ tc_pc' = "done"
    /\ Finally
    /\ UNCHANGED <<tc_fs, tc_server>>
    /\ UNCHANGED <<fdVars, pkVars, regVars, qVars, bgVars, wkVars, fmVars, glVars>>

\* --------------------------------------------------------------- claim C17

\* prepare_stardict_files has run
Prepared == tc_pc \in {"convert", "done"} /\ ~IsNone(tc_fs)

\* C17: when the conversion step fails (ImportError or any other Exception
\* inside it), and when, once the archive is extracted and its files
\* decompressed, there is no extracted directory, no .ifo file, or no .idx or
\* no .dict file, main returns and its exit status is not 0.
C17_FailureExitsNonZero ==
    LET conversion_failed == tc_conv \in {Some("ImportError"), Some("Exception")}
        file_missing ==
            /\ Prepared
            /\ \/ ~tc_fs[1].dir
               \/ ~({"ifo", "idx", "dict"} \subseteq tc_fs[1].files)
    IN  (conversion_failed \/ file_missing) =>
            /\ tc_pc = "done"
            /\ ~IsNone(tc_exit)
            /\ tc_exit[1] # 0

\* main returned 1 because the archive had no .idx file, compressed or not
C17_Witness ==
    /\ tc_pc = "done"
    /\ tc_exit = Some(1)
    /\ ~IsNone(tc_fs)
    /\ tc_fs[1].files = {"ifo", "dict"}
    /\ IsNone(tc_conv)

\* ======================================================================
\* scrape-freedict.py: main
\* ======================================================================

\* scrape-freedict.py lines 16-28: TOP_LANGUAGES, each <<code, name>>
TOP_LANGUAGES_FreeDict ==
    << << <<"e", "n", "g">>, "English">>,
       << <<"s", "p", "a">>, "Spanish">>,
       << <<"f", "r", "a">>, "French">>,
       << <<"d", "e", "u">>, "German">>,
       << <<"i", "t", "a">>, "Italian">>,
       << <<"p", "o", "r">>, "Portuguese">>,
       << <<"r", "u", "s">>, "Russian">>,
       << <<"a", "r", "a">>, "Arabic">>,
       << <<"h", "i", "n">>, "Hindi">>,
       << <<"z", "h", "o">>, "Chinese (Mandarin)">>,
       << <<"j", "p", "n">>, "Japanese">> >>

\* The hrefs the directory index holds: 'eng-spa/', 'deu-nld/', 'afr-eng/',
\* 'nld-swe/' and '../'
IndexHrefs ==
    {<<"e", "n", "g", "-", "s", "p", "a", "/">>,
     <<"d", "e", "u", "-", "n", "l", "d", "/">>,
     <<"a", "f", "r", "-", "e", "n", "g", "/">>,
     <<"n", "l", "d", "-", "s", "w", "e", "/">>,
     <<".", ".", "/">>}

\* Most links in the directory index
MaxLinks == 2

\* re.match(r'^[a-z]{3}-[a-z]{3}/$', href)
IsPairHref(href) ==
    /\ Len(href) = 8
    /\ \A i \in {1, 2, 3, 5, 6, 7} : href[i] \in LowerLetters
    /\ href[4] = "-"
    /\ href[8] = "/"

\* href.rstrip('/')
RStripSlash(href) ==
    LET keep == {i \in 1..Len(href) : \E j \in i..Len(href) : href[j] # "/"}
    IN  SubSeq(href, 1, Cardinality(keep))

\* Both languages are asked for
RelevantBoth(pair) ==
    /\ InTop(TOP_LANGUAGES_FreeDict, Split(pair)[1])
    /\ InTop(TOP_LANGUAGES_FreeDict, Split(pair)[2])

\* Lines 137-145: lang1 in top_language_codes or lang2 in top_language_codes
Relevant(pair) ==
    \/ InTop(TOP_LANGUAGES_FreeDict, Split(pair)[1])
    \/ InTop(TOP_LANGUAGES_FreeDict, Split(pair)[2])

\* TOP_LANGUAGES.get(lang, lang)
FreeDictName(lang) ==
    IF InTop(TOP_LANGUAGES_FreeDict, lang)
    THEN <<TopName(TOP_LANGUAGES_FreeDict, lang)>> ELSE lang

\* Lines 157-167: results[pair], the details of the pair under its languages
FreeDictRecord(pair, details) ==
    LET lang1 == Split(pair)[1]
        lang2 == Split(pair)[2]
        head == [pair |-> pair,
                 lang1 |-> [code |-> lang1, name |-> FreeDictName(lang1)],
                 lang2 |-> [code |-> lang2, name |-> FreeDictName(lang2)],
                 source |-> "freedict"]
    IN  [f \in DOMAIN head \cup DOMAIN details |->
            IF f \in DOMAIN details THEN details[f] ELSE head[f]]

\* What get_pair_details returns for a pair: None, or the details of the
\* StarDict row of its latest version
DetailsOf ==
    {None} \cup {Some(PairDetails("freedict.stardict.tar.xz", ParseSize(text))) :
                     text \in {<<"-">>, <<"0", "K">>, <<"5", "K">>,
                               <<".", "5", "M">>, <<"5", "M">>}}

FmInit ==
    /\ fm_pc = "scrape"
    /\ fm_n = 0
    /\ pairs = <<>>
    /\ relevant_pairs = <<>>
    /\ fm_i = 0
    /\ fm_results = <<>>
    /\ fm_file = None

\* Lines 52-56: one link of the directory index
FmScrapeLink ==
    /\ fm_pc = "scrape"
    /\ fm_n < MaxLinks
    /\ \E href \in IndexHrefs :
          pairs' = IF IsPairHref(href) THEN Append(pairs, RStripSlash(href)) ELSE pairs
    /\ fm_n' = fm_n + 1
    /\ UNCHANGED <<fm_pc, relevant_pairs, fm_i, fm_results, fm_file>>
    /\ UNCHANGED <<fdVars, pkVars, regVars, qVars, bgVars, wkVars, glVars, tcVars>>

\* Lines 58, 134-145: the index is read; the pairs are sorted and filtered
FmFilter ==
    /\ fm_pc = "scrape"
    /\ relevant_pairs' = SelectSeq(SortedNamesOf(pairs), Relevant)
    /\ fm_pc' = "loop"
    /\ UNCHANGED <<fm_n, pairs, fm_i, fm_results, fm_file>>
    /\ UNCHANGED <<fdVars, pkVars, regVars, qVars, bgVars, wkVars, glVars, tcVars>>

\* Lines 151-174: one relevant pair
FmCheck ==
    /\ fm_pc = "loop"
    /\ fm_i < Len(relevant_pairs)
    /\ \E details \in DetailsOf :
          LET pair == relevant_pairs[fm_i + 1]
          IN  fm_results' = IF IsNone(details) THEN fm_results
                            ELSE DictSet(fm_results, pair, FreeDictRecord(pair, details[1]))
    /\ fm_i' = fm_i + 1
    /\ UNCHANGED <<fm_pc, fm_n, pairs, relevant_pairs, fm_file>>
    /\ UNCHANGED <<fdVars, pkVars, regVars, qVars, bgVars, wkVars, glVars, tcVars>>

\* Lines 176-192: the results are sorted and written
FmWrite ==
    /\ fm_pc = "loop"
    /\ fm_i = Len(relevant_pairs)
    /\ LET sorted_results == SortedResults(fm_results)
       IN  fm_file' = Some([source |-> "freedict",
                            total_pairs_found |-> Len(sorted_results),
                            dictionaries |-> sorted_results])
    /\ fm_pc' = "done"
    /\ UNCHANGED <<fm_n, pairs, relevant_pairs, fm_i, fm_results>>
    /\ UNCHANGED <<fdVars, pkVars, regVars, qVars, bgVars, wkVars, glVars, tcVars>>

\* ======================================================================
\* scrape-freedict.py: get_pair_details, the latest version (lines 65-91)
\* ======================================================================

\* Most links on the page of a pair
MaxVersionLinks == 2

\* Line 76: re.match(r'^[\d\.-]+[a-z]*[\d]*/$', href)
IsVersion(href) ==
    LET n == Len(href)
    IN  /\ n >= 2
        /\ href[n] = "/"
        /\ \E i \in 1..(n - 1), j \in 1..(n - 1) :
              /\ i <= j
              /\ \A k \in 1..i : href[k] \in Digits \cup {".", "-"}
              /\ \A k \in (i + 1)..j : href[k] \in LowerLetters
              /\ \A k \in (j + 1)..(n - 1) : href[k] \in Digits

\* The whole name is one str of the key
VersionKeyPlain(x) == << <<"str", x>> >>

\* Line 83, the sort key: re.split(r'(\d+)', x) gives the text before the
\* first run of digits, that run, the text up to the next run, that run, ...,
\* and the text after the last run (texts may be empty); int(i) is made of a
\* part on which isdigit() holds.  A part is written <<"int", n>> or
\* <<"str", text>>.
VersionKey(x) ==
    LET RECURSIVE SplitRuns(_, _)
        SplitRuns(rest, text) ==
            IF Len(rest) = 0 THEN << <<"str", text>> >>
            ELSE IF rest[1] \in Digits
            THEN LET m == CHOOSE k \in 1..Len(rest) :
                              /\ \A j \in 1..k : rest[j] \in Digits
                              /\ k < Len(rest) => rest[k + 1] \notin Digits
                 IN  << <<"str", text>>, <<"int", DigitsVal(SubSeq(rest, 1, m))>> >>
                         \o SplitRuns(SubSeq(rest, m + 1, Len(rest)), <<>>)
            ELSE SplitRuns(Tail(rest), Append(text, rest[1]))
        parts == SplitRuns(x, <<>>)
    IN  [k \in 1..Len(parts) |->
            IF parts[k][1] = "str" /\ Len(parts[k][2]) > 0
                                  /\ \A j \in 1..Len(parts[k][2]) : parts[k][2][j] \in Digits
            THEN <<"int", DigitsVal(parts[k][2])>>
            ELSE parts[k]]

\* Line 83: sorted(versions, key=...)[-1].  Two keys are compared at their
\* first differing part, an int with an int or a str with a str (an int with
\* a str raises TypeError), a key that is the beginning of another being the
\* smaller; the sort being stable, its last element is the last of the
\* versions whose key is greatest.  None when a comparison raises.
LatestVersion(names) ==
    LET differ(a, b) == {k \in 1..Min(Len(a), Len(b)) : a[k] # b[k]}
        first(a, b) == CHOOSE k \in differ(a, b) : \A j \in differ(a, b) : k <= j
        raises(a, b) == differ(a, b) # {} /\ a[first(a, b)][1] # b[first(a, b)][1]
        less(a, b) ==
            IF differ(a, b) = {} THEN Len(a) < Len(b)
            ELSE IF a[first(a, b)][1] = "int"
            THEN a[first(a, b)][2] < b[first(a, b)][2]
            ELSE StrLess(a[first(a, b)][2], b[first(a, b)][2])
        key == [i \in 1..Len(names) |-> VersionKey(names[i])]
    IN  IF \E i, j \in 1..Len(names) : raises(key[i], key[j])
        THEN None
        ELSE Some(names[CHOOSE i \in 1..Len(names) :
                            /\ \A j \in 1..Len(names) : ~less(key[i], key[j])
                            /\ \A j \in (i + 1)..Len(names) : less(key[j], key[i])])

\* Lines 67-68 and 87-88: requests.get and raise_for_status, for the page of
\* the pair and then for the page of the latest version; what they raise is
\* caught at line 125 and None returned
FdRequest ==
    /\ fd_pc \in {"request1", "request2"}
    /\ \E ok \in BOOLEAN :
          /\ fd_pc' = IF ~ok THEN "done" ELSE IF fd_pc = "request1" THEN "versions" ELSE "rows"
          /\ fd_result' = None
    /\ versions' = <<>>
    /\ UNCHANGED <<fd_links, latest_version, fd_row, size_text>>
    /\ UNCHANGED <<pkVars, regVars, qVars, bgVars, wkVars, fmVars, glVars, tcVars>>

\* Lines 73-77: one link of the page
FdVersionLink ==
    /\ fd_pc = "versions"
    /\ fd_links < MaxVersionLinks
    /\ \E href \in {<<"0", ".", "9", "/">>, <<"0", ".", "1", "0", "/">>,
                    <<"0", ".", "0", "9", "/">>, <<".", ".", "/">>,
                    <<"a", "0", "/">>} :
          versions' = IF IsVersion(href) THEN Append(versions, RStripSlash(href))
                      ELSE versions
    /\ fd_links' = fd_links + 1
    /\ UNCHANGED <<fd_pc, latest_version, fd_row, size_text, fd_result>>
    /\ UNCHANGED <<pkVars, regVars, qVars, bgVars, wkVars, fmVars, glVars, tcVars>>

\* Lines 79-83: no more links.  None is returned when there is no version,
\* and when the sort raises (line 125).
FdLatest ==
    /\ fd_pc = "versions"
    /\ IF versions = <<>>
       THEN latest_version' = None /\ fd_pc' = "done"
       ELSE /\ latest_version' = LatestVersion(versions)
            /\ fd_pc' = IF IsNone(LatestVersion(versions)) THEN "done" ELSE "request2"
    /\ fd_result' = None
    /\ UNCHANGED <<fd_links, versions, fd_row, size_text>>
    /\ UNCHANGED <<pkVars, regVars, qVars, bgVars, wkVars, fmVars, glVars, tcVars>>

\* --------------------------------------------------------------- claim C19

\* The maximal runs of digits and of other characters of x, in order, after
\* an empty first run when x begins with a digit: the runs at odd places are
\* free of digits, those at even places are made of digits
AlternatingRuns(x) ==
    LET starts == {i \in 1..Len(x) : i = 1 \/ (x[i] \in Digits) # (x[i - 1] \in Digits)}
        start(k) == CHOOSE i \in starts : Cardinality({j \in starts : j < i}) = k - 1
        end(k) == IF k = Cardinality(starts) THEN Len(x) ELSE start(k + 1) - 1
        maximal == [k \in 1..Cardinality(starts) |-> SubSeq(x, start(k), end(k))]
    IN  IF Len(x) > 0 /\ x[1] \in Digits THEN << <<>> >> \o maximal ELSE maximal

\* x comes before y: at the first place where their runs differ, as integers
\* for runs of digits and as strings for the others, x has the smaller run,
\* or x has no run left there
NumericAwareLess(x, y) ==
    LET rx == AlternatingRuns(x)
        ry == AlternatingRuns(y)
        same(k) == IF k % 2 = 0 THEN DigitsVal(rx[k]) = DigitsVal(ry[k]) ELSE rx[k] = ry[k]
    IN  \E k \in 1..Len(ry) :
            /\ k <= Len(rx) + 1
            /\ \A j \in 1..(k - 1) : same(j)
            /\ \/ k = Len(rx) + 1
               \/ IF k % 2 = 0 THEN DigitsVal(rx[k]) < DigitsVal(ry[k])
                  ELSE StrLess(rx[k], ry[k])

\* C19: once the links of the page are read, the version chosen is one of
\* the version names listed and none of them comes after it in the
\* numeric-aware order; choosing it never raises (the run goes on to ask for
\* the page of that version); and a record is returned only for a version
\* chosen: with no version name listed, None is returned.
C19_LatestVersion ==
    /\ fd_pc = "request2" =>
          /\ ~IsNone(latest_version)
          /\ \E i \in 1..Len(versions) : versions[i] = latest_version[1]
          /\ \A i \in 1..Len(versions) : ~NumericAwareLess(latest_version[1], versions[i])
    /\ (fd_pc = "done" /\ IsNone(latest_version)) => versions = <<>> /\ IsNone(fd_result)
    /\ (fd_pc = "rows" \/ ~IsNone(fd_result)) => ~IsNone(latest_version)

\* 0.10 was listed before 0.9, and 0.10 is chosen
C19_Witness ==
    /\ fd_pc = "request2"
    /\ versions = << <<"0", ".", "1", "0">>, <<"0", ".", "9">> >>
    /\ latest_version = Some(<<"0", ".", "1", "0">>)

\* ======================================================================
\* claims about the scripts that probe and sort
\* ======================================================================

\* The candidates of quick-scrape.py in the order main probes them
QCandidates ==
    [i \in 1..Len(Tests(FreedictTests)) |-> [list |-> "freedict", pair |-> Tests(FreedictTests)[i][1]]]
    \o [i \in 1..Len(Tests(WiktionaryTests)) |-> [list |-> "wiktionary", pair |-> Tests(WiktionaryTests)[i][1]]]
    \o [i \in 1..Len(Tests(BergamotTests)) |-> [list |-> "bergamot", pair |-> Tests(BergamotTests)[i][1]]]

\* How many candidates lie before the place the run of quick-scrape.py is at
QPlace ==
    CASE q_pc = "freedict" -> q_i
      [] q_pc = "wiktionary" -> Len(Tests(FreedictTests)) + q_i
      [] q_pc = "bergamot" -> Len(Tests(FreedictTests)) + Len(Tests(WiktionaryTests)) + q_i
      [] OTHER -> Len(QCandidates)

\* C5: in the loops over hard-coded urls (quick-scrape.py main,
\* scrape-bergamot.py discover_bergamot_patterns) a candidate whose probe
\* failed is absent from the results; no candidate after it is skipped (the
\* candidates probed so far are exactly those before the loop's place, in
\* order); a run that has not ended can always take its next step; and a run
\* that has ended has probed every candidate and written its report.
C5_FailedProbeDropped ==
    /\ q_pc # "off" =>
          /\ \A k \in 1..Len(q_probed) :
                q_probed[k].failed =>
                    ~DictHas(q_results[q_probed[k].list], q_probed[k].pair)
          /\ Len(q_probed) = QPlace
          /\ \A k \in 1..Len(q_probed) :
                /\ q_probed[k].list = QCandidates[k].list
                /\ q_probed[k].pair = QCandidates[k].pair
          /\ q_pc # "done" => ENABLED QNext
          /\ q_pc = "done" => q_file # None /\ Len(q_probed) = Len(QCandidates)
    /\ bg_pc # "off" =>
          /\ \A k \in 1..Len(bg_probed) :
                bg_probed[k].failed =>
                    /\ ~DictHas(bergamot_results, bg_probed[k].pair)
                    /\ bg_file # None =>
                          \A i \in 1..Len(bg_file[1].translation_models) :
                              LET item == bg_file[1].translation_models[i]
                              IN  item[1] = bg_probed[k].pair
                                      => item[2].source # "bergamot_statmt"
          /\ Len(bg_probed) = bg_i
          /\ \A k \in 1..Len(bg_probed) :
                bg_probed[k].pair = KnownTests[k][1] \o <<"-">> \o KnownTests[k][2]
          /\ bg_pc # "done" => ENABLED BgNext
          /\ bg_pc = "done" => bg_file # None /\ Len(bg_probed) = Len(KnownTests)

\* A run of quick-scrape.py has ended: the probe of its first candidate
\* failed, the probe of the next one measured a size, the first is absent
\* from the report and the second is in it
C5_Witness ==
    /\ q_pc = "done"
    /\ q_probed[1].failed
    /\ ~q_probed[2].failed /\ Truthy(q_probed[2].size)
    /\ ~DictHas(q_file[1].freedict, q_probed[1].pair)
    /\ DictHas(q_file[1].freedict, q_probed[2].pair)

\* The number of items of a dict, as written, whose key or whose record's
\* pair is `key`
RecordsFor(d, key) ==
    Cardinality({i \in 1..Len(d) : d[i][1] = key \/ d[i][2].pair = key})

\* C6: when both passes of scrape-bergamot.py main have a record for a pair
\* key, the written output holds exactly one record for that key, and it is
\* the record of the second (statmt) pass whole: no name, description or
\* license, and the source tag of the second pass.
C6_SecondPassReplaces ==
    bg_pc = "done" =>
        \A i \in 1..Len(bergamot_results) :
            LET key == bergamot_results[i][1]
                written == bg_file[1].translation_models
            IN  DictHas(translatelocally_results, key) =>
                    /\ RecordsFor(written, key) = 1
                    /\ DictGet(written, key) = bergamot_results[i][2]
                    /\ DOMAIN DictGet(written, key)
                           \cap {"name", "description", "license"} = {}
                    /\ DictGet(written, key).source = "bergamot_statmt"

\* Both passes had a record for one key, the first with a name, and the
\* output is written
C6_Witness ==
    /\ bg_pc = "done"
    /\ \E i \in 1..Len(bergamot_results) :
          /\ DictHas(translatelocally_results, bergamot_results[i][1])
          /\ DictGet(translatelocally_results, bergamot_results[i][1]).source
                 = "translatelocally"
          /\ DictGet(translatelocally_results, bergamot_results[i][1]).description # <<>>

\* size_mb, an absent one taken as 0, in tenths of a MiB
SizeKey(record) == IF IsNone(record.size_mb) THEN 0 ELSE record.size_mb[1]

Descending(written) ==
    \A i \in 1..(Len(written) - 1) :
        SizeKey(written[i][2]) >= SizeKey(written[i + 1][2])

\* The collections written so far by the scrapers
WrittenCollections ==
    (IF fm_file # None THEN {fm_file[1].dictionaries} ELSE {})
    \cup (IF wk_file # None THEN {wk_file[1].dictionaries} ELSE {})
    \cup (IF bg_file # None THEN {bg_file[1].translation_models} ELSE {})

\* C7: in every scraper report (freedict, wiktionary, wiktionary-top10,
\* bergamot), of every two consecutive records a then b of the written
\* collection, the size_mb of a (absent taken as 0) is at least that of b.
C7_SortedDescending ==
    \A written \in WrittenCollections : Descending(written)

\* A report is written whose two records were collected smaller first
C7_Witness ==
    /\ wk_file # None
    /\ Len(wk_results) = 2
    /\ SizeKey(wk_results[1][2]) < SizeKey(wk_results[2][2])
    /\ wk_file[1].dictionaries = <<wk_results[2], wk_results[1]>>

\* C8: sorting a written collection again, descending by size_mb (absent
\* taken as 0) with the sort the scripts use, gives the written order back,
\* also when records have equal or absent sizes.
C8_ResortReproduces ==
    \A written \in WrittenCollections : SortedResults(written) = written

\* A report is written with two records of equal key, one of them without a
\* size_mb
C8_Witness ==
    /\ fm_file # None
    /\ Len(fm_file[1].dictionaries) = 2
    /\ IsNone(fm_file[1].dictionaries[1][2].size_mb)
    /\ ~IsNone(fm_file[1].dictionaries[2][2].size_mb)
    /\ SizeKey(fm_file[1].dictionaries[1][2]) = SizeKey(fm_file[1].dictionaries[2][2])

\* C10: a candidate whose size was measured as 0 bytes is handled as a
\* measured asset of size 0: quick-scrape.py and discover_bergamot_patterns
\* record it, and the wiktionary scripts record it with a size_mb of 0, as
\* they do for every other measured size.
C10_ZeroIsMeasured ==
    /\ \A k \in 1..Len(q_probed) :
          q_probed[k].size = Some(0) =>
              DictHas(q_results[q_probed[k].list], q_probed[k].pair)
    /\ \A k \in 1..Len(bg_probed) :
          bg_probed[k].size = Some(0) =>
              DictHas(bergamot_results, bg_probed[k].pair)
    /\ \A k \in 1..Len(wk_probed) :
          (k = Len(wk_probed) /\ wk_probed[k].size = Some(0)) =>
              DictGet(wk_results, wk_probed[k].pair).size_mb = Some(0)

\* C11: in a catalog scan an entry whose processing raises costs only
\* itself: what the scan of the repository listing has collected from the
\* entries before it stays collected, whatever the next step of the scan is.
C11_OnlyItemSkipped ==
    [][wk_pc = "scrape" =>
          \A i \in 1..Len(dictionaries) :
              i <= Len(dictionaries') /\ dictionaries'[i] = dictionaries[i]]_vars

\* The two language sides of the entry of the listing being scanned, lower
\* case, or <<>> when there is no entry or its name is not that of a
\* dictionary file with a well-formed pair
ScannedSides ==
    IF wk_file_info = None \/ IsNone(wk_file_info[1].name) THEN <<>>
    ELSE LET filename == wk_file_info[1].name[1]
         IN  IF LooksLikeDictionary(filename) /\ MatchName(filename) # <<>>
             THEN <<Lower(MatchName(filename)[1]), Lower(MatchName(filename)[2])>>
             ELSE <<>>

\* The scan has collected the entry being scanned
ScannedCollected ==
    \E i \in 1..Len(dictionaries) : dictionaries[i].filename = wk_file_info[1].name[1]

\* Every record the wiktionary script holds or has written is the record of a
\* file the scan collected
RecordsAreCollected ==
    /\ \A k \in 1..Len(wk_probed) :
          \E i \in 1..Len(dictionaries) : dictionaries[i].filename = wk_probed[k].filename
    /\ \A k \in 1..Len(wk_results) :
          \E i \in 1..Len(dictionaries) : dictionaries[i].filename = wk_results[k][2].filename
    /\ wk_file # None =>
          \A k \in 1..Len(wk_file[1].dictionaries) :
              \E i \in 1..Len(dictionaries) :
                  dictionaries[i].filename = wk_file[1].dictionaries[k][2].filename

\* The two language sides of the registry entry parsed last, or <<>> when
\* there is no entry or its name has fewer than three parts
ParsedSides ==
    IF bg_model = None \/ IsNone(bg_model[1].name) THEN <<>>
    ELSE LET parts == Split(bg_model[1].name[1])
         IN  IF Len(parts) >= 3 THEN <<parts[1], parts[2]>> ELSE <<>>

\* C12: under the 'both sides match' policy (scrape_top10_wiktionary,
\* parse_translatelocally_models) a candidate is retained if and only if both
\* of its language sides are in the target set of the script, and every
\* record collected, probed or written has both sides in that set.
C12_BothSides ==
    /\ wk_script = "top10" =>
          /\ ScannedSides # <<>> =>
                (ScannedCollected <=>
                    /\ InTop(TOP_10_LANGUAGES, ScannedSides[1])
                    /\ InTop(TOP_10_LANGUAGES, ScannedSides[2]))
          /\ \A i \in 1..Len(dictionaries) :
                /\ InTop(TOP_10_LANGUAGES, dictionaries[i].lang1)
                /\ InTop(TOP_10_LANGUAGES, dictionaries[i].lang2)
          /\ RecordsAreCollected
    /\ ParsedSides # <<>> =>
          LET pair_key == ParsedSides[1] \o <<"-">> \o ParsedSides[2]
          IN  (/\ DictHas(translatelocally_results, pair_key)
               /\ DictGet(translatelocally_results, pair_key).name = bg_model[1].name[1])
              <=> (/\ InTop(TOP_LANGUAGES_Bergamot, ParsedSides[1])
                   /\ InTop(TOP_LANGUAGES_Bergamot, ParsedSides[2]))
    /\ \A i \in 1..Len(translatelocally_results) :
          /\ InTop(TOP_LANGUAGES_Bergamot, translatelocally_results[i][2].source_lang.code)
          /\ InTop(TOP_LANGUAGES_Bergamot, translatelocally_results[i][2].target_lang.code)

\* The top10 scan has collected a file and has just passed over a file with
\* one side only in the target set
C12_Witness ==
    /\ wk_script = "top10"
    /\ Len(dictionaries) = 1
    /\ ScannedSides # <<>>
    /\ InTop(TOP_10_LANGUAGES, ScannedSides[2])
    /\ ~InTop(TOP_10_LANGUAGES, ScannedSides[1])
    /\ ~ScannedCollected

\* C13: under the 'either side matches' policy (scrape-freedict.py main,
\* scrape_wiktionary_repo) a candidate with a well-formed pair name is
\* retained if and only if at least one of its language sides is in the
\* target set of the script; a candidate with neither side in the set is
\* never probed and never in the output.
C13_EitherSide ==
    /\ wk_script = "wiktionary" =>
          /\ ScannedSides # <<>> =>
                (ScannedCollected <=>
                    \/ InTop(TOP_LANGUAGES_Wiktionary, ScannedSides[1])
                    \/ InTop(TOP_LANGUAGES_Wiktionary, ScannedSides[2]))
          /\ \A i \in 1..Len(dictionaries) :
                \/ InTop(TOP_LANGUAGES_Wiktionary, dictionaries[i].lang1)
                \/ InTop(TOP_LANGUAGES_Wiktionary, dictionaries[i].lang2)
          /\ RecordsAreCollected
    /\ fm_pc \in {"loop", "done"} =>
          /\ \A i \in 1..Len(pairs) :
                InList(pairs[i], relevant_pairs) <=>
                    \/ InTop(TOP_LANGUAGES_FreeDict, SubSeq(pairs[i], 1, 3))
                    \/ InTop(TOP_LANGUAGES_FreeDict, SubSeq(pairs[i], 5, 7))
          /\ \A i \in 1..Len(relevant_pairs) : InList(relevant_pairs[i], pairs)
          /\ \A i \in 1..Len(fm_results) :
                \E k \in 1..fm_i : relevant_pairs[k] = fm_results[i][1]
          /\ fm_file # None =>
                \A i \in 1..Len(fm_file[1].dictionaries) :
                    InList(fm_file[1].dictionaries[i][1], relevant_pairs)

\* scrape-freedict.py has written its report: the index listed a pair with
\* neither side in the target set and a pair with one side in it, and only
\* the second is in the report
C13_Witness ==
    /\ fm_file # None
    /\ Len(pairs) = 2
    /\ ~InTop(TOP_LANGUAGES_FreeDict, SubSeq(pairs[1], 1, 3))
    /\ ~InTop(TOP_LANGUAGES_FreeDict, SubSeq(pairs[1], 5, 7))
    /\ ~InTop(TOP_LANGUAGES_FreeDict, SubSeq(pairs[2], 1, 3))
    /\ InTop(TOP_LANGUAGES_FreeDict, SubSeq(pairs[2], 5, 7))
    /\ DictHas(fm_file[1].dictionaries, pairs[2])
    /\ ~DictHas(fm_file[1].dictionaries, pairs[1])

\* --------------------------------------------------------------- claim C18

\* The record, among the items of a dict, of the candidate probed at place k
\* of the loop of scrape-wiktionary.py or scrape-wiktionary-top10.py
WkKept(items, k) ==
    /\ DictHas(items, wk_probed[k].pair)
    /\ DictGet(items, wk_probed[k].pair).filename = wk_probed[k].filename
    /\ IsNone(DictGet(items, wk_probed[k].pair).size_bytes)
    /\ IsNone(DictGet(items, wk_probed[k].pair).size_mb)

\* The record, among the items of a dict, of the registry entry parsed last
BgKept(items) ==
    LET pair_key == ParsedSides[1] \o <<"-">> \o ParsedSides[2]
    IN  /\ DictHas(items, pair_key)
        /\ DictGet(items, pair_key).name = bg_model[1].name[1]
        /\ DictGet(items, pair_key).source = "translatelocally"
        /\ IsNone(DictGet(items, pair_key).size_bytes)
        /\ IsNone(DictGet(items, pair_key).size_mb)

\* C18 as stated: no record, collected or written, belongs to a candidate
\* whose size probe failed.
C18_FailedProbeOmitted ==
    /\ \A k \in 1..Len(wk_probed) :
          wk_probed[k].failed =>
              /\ \A i \in 1..Len(wk_results) :
                    wk_results[i][2].filename # wk_probed[k].filename
              /\ wk_file # None =>
                    \A i \in 1..Len(wk_file[1].dictionaries) :
                        wk_file[1].dictionaries[i][2].filename # wk_probed[k].filename
    /\ bg_probe = Some(TRUE) =>
          /\ \A i \in 1..Len(translatelocally_results) :
                translatelocally_results[i][2].name # bg_model[1].name[1]
          /\ bg_file # None =>
                \A i \in 1..Len(bg_file[1].translation_models) :
                    LET item == bg_file[1].translation_models[i][2]
                    IN  item.source = "translatelocally" => item.name # bg_model[1].name[1]

\* C18, amended: in scrape-wiktionary.py, scrape-wiktionary-top10.py and the
\* translateLocally pass of scrape-bergamot.py a candidate whose size probe
\* failed is kept: unless a later candidate took its pair key, the results
\* and the written report hold its record, with size_bytes and size_mb
\* absent.  (The candidates dropped for a failed probe are those of
\* quick-scrape.py and of the known-model pass of scrape-bergamot.py.)
C18_FailedProbeKeptWithoutSize ==
    /\ \A k \in 1..Len(wk_probed) :
          (/\ wk_probed[k].failed
           /\ \A j \in (k + 1)..Len(wk_probed) : wk_probed[j].pair # wk_probed[k].pair) =>
              /\ WkKept(wk_results, k)
              /\ wk_file # None => WkKept(wk_file[1].dictionaries, k)
    /\ bg_probe = Some(TRUE) =>
          /\ BgKept(translatelocally_results)
          /\ (/\ bg_file # None
              /\ ~DictHas(bergamot_results, ParsedSides[1] \o <<"-">> \o ParsedSides[2])) =>
                 BgKept(bg_file[1].translation_models)
    /\ \A k \in 1..Len(q_probed) :
          q_probed[k].failed => ~DictHas(q_results[q_probed[k].list], q_probed[k].pair)
    /\ \A k \in 1..Len(bg_probed) :
          bg_probed[k].failed => ~DictHas(bergamot_results, bg_probed[k].pair)

\* A run of one of the wiktionary scripts has written its report: the probe
\* of its first candidate failed, and the report holds the record of that
\* candidate, without a size
C18_Witness ==
    /\ wk_file # None
    /\ Len(wk_probed) >= 1
    /\ wk_probed[1].failed
    /\ WkKept(wk_file[1].dictionaries, 1)

\* --------------------------------------------------------------- claim C22

\* The orders in which the items of a dict could have been inserted
InsertionOrders(items) ==
    {[i \in 1..Len(items) |-> items[p[i]]] :
        p \in {q \in [1..Len(items) -> 1..Len(items)] :
                  \A i, j \in 1..Len(items) : i # j => q[i] # q[j]}}

\* The results a script collected and the dictionaries it wrote, for the
\* scripts that have written their report
CollectedAndWritten ==
    (IF wk_file # None
     THEN {[collected |-> wk_results, written |-> wk_file[1].dictionaries]} ELSE {})
    \cup (IF fm_file # None
          THEN {[collected |-> fm_results, written |-> fm_file[1].dictionaries]} ELSE {})

\* C22 as stated: had the same records been inserted in any other order, the
\* same order would have been written.
C22_OrderIndependent ==
    \A run \in CollectedAndWritten :
        \A other \in InsertionOrders(run.collected) :
            SortedResults(other) = run.written

\* C22, amended: had the same records been inserted in any other order, the
\* written list would have had the same sizes at the same places, and would
\* have been the same list when no two records have the same sort key
\* (size_mb, absent counting as 0); records with the same sort key are
\* written in the order they were inserted in.
C22_OrderUpToTies ==
    \A run \in CollectedAndWritten :
        \A other \in InsertionOrders(run.collected) :
            LET sorted == SortedResults(other)
                place(item) == CHOOSE i \in 1..Len(sorted) : sorted[i] = item
            IN  /\ Len(sorted) = Len(run.written)
                /\ \A i \in 1..Len(sorted) : SortKey(sorted[i]) = SortKey(run.written[i])
                /\ \A i, j \in 1..Len(other) :
                      (i < j /\ SortKey(other[i]) = SortKey(other[j])) =>
                          place(other[i]) < place(other[j])
                /\ (\A i, j \in 1..Len(other) :
                       i # j => SortKey(other[i]) # SortKey(other[j])) =>
                      sorted = run.written

\* A wiktionary script wrote two records of the same size: inserted the other
\* way round, they would have been written the other way round
C22_Witness ==
    /\ wk_file # None
    /\ Len(wk_results) = 2
    /\ SortKey(wk_results[1]) = SortKey(wk_results[2])
    /\ wk_file[1].dictionaries = wk_results
    /\ SortedResults(Reversed(wk_results)) = Reversed(wk_results)

\* ======================================================================
\* specifications
\* ======================================================================

\* get_pair_details over one version listing
SpecFreedict ==
    FdInit /\ [][FdRequest \/ FdVersionLink \/ FdLatest
                    \/ FdSkipRow \/ FdMatchRow \/ FdNoMoreRows]_vars

\* The loop body of generate_registry over one archive
SpecPack == PkInit /\ [][PkBuild \/ PkRaise]_vars

\* Runs of generate_registry over one directory
SpecRegistry == RegInit /\ [][GenerateRegistry]_vars

\* A run of one of the scripts that probe remote files: quick-scrape.py,
\* scrape-bergamot.py, scrape-wiktionary.py or scrape-wiktionary-top10.py,
\* scrape-freedict.py
InitScripts ==
    \/ QInit /\ OthersOff("quick-scrape")
    \/ BgInit /\ OthersOff("scrape-bergamot")
    \/ WkInit /\ OthersOff("scrape-wiktionary")
    \/ FmInit /\ OthersOff("scrape-freedict")
    \/ GlInit /\ OthersOff("get_language_code")
    \/ TcInit /\ OthersOff("test_conversion")

NextScripts ==
    \/ QNext
    \/ BgNext
    \/ WkScrapeFile \/ WkScrapeRaise \/ WkScrapeEnd \/ WkCheck \/ WkWrite
    \/ FmScrapeLink \/ FmFilter \/ FmCheck \/ FmWrite
    \/ GlCall
    \/ TcSetup \/ TcDownload \/ TcExtract \/ TcPrepare \/ TcConvert

SpecScripts == InitScripts /\ [][NextScripts]_vars

\* --------------------------------------------------------------- claim C23

\* C23: no run waits for ever on a network request: whatever the servers do,
\* a run of a script that has not ended can take its next step (a request
\* that is not answered ends when its timeout runs out).
C23_NoRunWaitsForEver ==
    \A pc \in {q_pc, bg_pc, wk_pc, fm_pc, tc_pc} :
        pc \notin {"off", "done", "escaped"} => ENABLED NextScripts

\* --------------------------------------------------------------- claim C24

\* The two-letter (ISO 639-1) code of each language of TOP_7_LANGUAGES, the
\* code the Bergamot pairs are written with
TwoLetterCode(lang_code) ==
    CASE lang_code = <<"e", "n", "g">> -> <<"e", "n">>
      [] lang_code = <<"s", "p", "a">> -> <<"e", "s">>
      [] lang_code = <<"f", "r", "a">> -> <<"f", "r">>
      [] lang_code = <<"d", "e", "u">> -> <<"d", "e">>
      [] lang_code = <<"i", "t", "a">> -> <<"i", "t">>
      [] lang_code = <<"p", "o", "r">> -> <<"p", "t">>
      [] lang_code = <<"r", "u", "s">> -> <<"r", "u">>

\* The number of pairs of a dict that have `code` as source or as target
PairsWith(d, code) ==
    Cardinality({i \in 1..Len(d) : Split(d[i][1])[1] = code \/ Split(d[i][1])[2] = code})

\* C24: in the report of quick-scrape.py, for every language of
\* TOP_7_LANGUAGES, translations is the number of verified Bergamot pairs
\* with that language as source or target, dictionaries the number of
\* verified FreeDict and Wiktionary pairs with it on either side, and total
\* their sum.
C24_CoverageCounts ==
    q_file # None =>
        LET coverage == q_file[1].summary[1].language_coverage
        IN  /\ Len(coverage) = Len(TOP_7_LANGUAGES)
            /\ \A l \in 1..Len(TOP_7_LANGUAGES) :
                  LET lang_code == TOP_7_LANGUAGES[l][1]
                  IN  /\ coverage[l][1] = lang_code
                      /\ coverage[l][2].translations
                           = PairsWith(q_file[1].bergamot, TwoLetterCode(lang_code))
                      /\ coverage[l][2].dictionaries
                           = PairsWith(q_file[1].freedict, lang_code)
                             + PairsWith(q_file[1].wiktionary, lang_code)
                      /\ coverage[l][2].total
                           = coverage[l][2].dictionaries + coverage[l][2].translations

\* --------------------------------------------------------------- claim C26

\* C26: when scrape_wiktionary_repo returned distinct files, the report of
\* scrape-wiktionary.py has a record for each of them and
\* total_dictionaries_found is their number.
C26_NoCandidateLost ==
    (/\ wk_script = "wiktionary"
     /\ wk_file # None
     /\ \A i, j \in 1..Len(dictionaries) :
           i # j => dictionaries[i].filename # dictionaries[j].filename) =>
        /\ wk_file[1].total_dictionaries_found = Len(dictionaries)
        /\ \A i \in 1..Len(dictionaries) :
              \E k \in 1..Len(wk_file[1].dictionaries) :
                  wk_file[1].dictionaries[k][2].filename = dictionaries[i].filename

\* --------------------------------------------------------------- claim C27
\* C27 as the specification words it: main returns 0 only when the download,
\* the extraction, the preparation, the conversion and the verification all
\* succeeded, so never when verify_sqlite returned False; verify_sqlite has
\* run only when the conversion succeeded; and once main has ended, by a
\* return or by an exception, the working directory is the parent again.
C27_ZeroOnlyWhenVerified ==
    /\ tc_exit = Some(0) =>
           /\ Prepared
           /\ tc_conv = Some("converted")
           /\ tc_verify = Some(TRUE)
    /\ ~IsNone(tc_verify) => tc_conv = Some("converted")
    /\ tc_pc \in {"done", "escaped"} => tc_cwd = "parent"

====
